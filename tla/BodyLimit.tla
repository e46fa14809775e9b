------------------------------- MODULE BodyLimit -------------------------------
(***************************************************************************)
(* The web API's limit on request bodies: api/body_limit.py, between the   *)
(* server and the application.                                             *)
(*                                                                         *)
(* The application reads and answers in two tasks, each of which the       *)
(* server may keep waiting: a message that is sent is on the wire a step   *)
(* after the middleware has let it through, and the other task may run in  *)
(* between.                                                                *)
(***************************************************************************)
EXTENDS Integers, Sequences, SequencesExt

CONSTANTS
  MaxBytes,             \* MAX_BODY_BYTES
  Lengths, Sizes,       \* the lengths a client declares and the chunks it sends, in bytes
  None,                 \* no declared length that can be read, and no chunk: the client went
  MaxReads, MaxParts    \* bounds: what the application reads, and the parts of its answer

ASSUME BodyAssumption ==
  /\ {MaxBytes, MaxReads, MaxParts} \subseteq Nat
  /\ Lengths \subseteq Nat /\ Sizes \subseteq Nat /\ None \notin Nat

Gone == None
Answer413 == <<<<"start", "413">>, <<"part", "413">>>>
Messages == {"start", "part"} \X {"413", "app"}

VARIABLES
  declared, at,                \* the Content-Length, and where __call__ or limited_receive is
  received, rejected, started, \* the variables of __call__
  sender,                      \* the message guarded_send has let through and not yet sent
  wire,                        \* what was sent to the client, each message with its author
  arrived, given,              \* history: what the server handed out, what the application got
  answered,                    \* history: the messages the application sent
  body                         \* history: the bytes that arrived before it began its answer

bodyVars == <<declared, at, received, rejected, started, sender, wire, arrived, given, answered,
              body>>

BodyInit ==
  /\ declared \in Lengths \union {None}
  /\ at = "called" /\ received = 0 /\ body = 0
  /\ rejected = FALSE /\ started = FALSE /\ sender = "nothing"
  /\ wire = <<>> /\ arrived = <<>> /\ given = <<>> /\ answered = <<>>

-----------------------------------------------------------------------------

\* Variant: a length of exactly the limit is refused.
TooLargeAtLimit == declared # None /\ declared >= MaxBytes
TooLarge == declared # None /\ declared > MaxBytes

Call ==
  /\ at = "called"
  /\ at' = IF TooLarge THEN "rejecting" ELSE "reading"
  /\ UNCHANGED <<declared, received, rejected, started, sender, wire, arrived, given, answered, body>>

\* _reject, in two messages; the application is told that the client went.
RejectStart ==
  /\ at = "rejecting" /\ at' = "rejected"
  /\ wire' = Append(wire, Answer413[1])
  /\ UNCHANGED <<declared, received, rejected, started, sender, arrived, given, answered, body>>

RejectPart ==
  /\ at = "rejected"
  /\ wire' = Append(wire, Answer413[2])
  /\ IF TooLarge THEN at' = "returned" /\ UNCHANGED given
     ELSE at' = "reading" /\ given' = Append(given, Gone)
  /\ UNCHANGED <<declared, received, rejected, started, sender, arrived, answered, body>>

\* Variant: the body is counted also while it is being answered.
CountsAlways(e) == e # Gone /\ ~rejected
Counts(e) == e # Gone /\ ~started /\ ~rejected

\* limited_receive: a chunk arrives, or the client goes and nothing follows.
Receive(e) ==
  /\ at = "reading" /\ Len(arrived) < MaxReads
  /\ arrived # <<>> /\ Last(arrived) = Gone => e = Gone
  /\ arrived' = Append(arrived, e)
  /\ body' = IF e # Gone /\ ~started THEN body + e ELSE body
  /\ received' = IF Counts(e) THEN received + e ELSE received
  /\ IF Counts(e) /\ received' > MaxBytes
     THEN rejected' = TRUE /\ at' = "rejecting" /\ UNCHANGED given
     ELSE given' = Append(given, e) /\ UNCHANGED <<rejected, at>>
  /\ UNCHANGED <<declared, started, sender, wire, answered>>

\* Variant: only the start of an answer is held back.
GuardedStart(kind) ==
  IF rejected /\ kind = "start" THEN UNCHANGED <<started, sender>>
  ELSE started' = (started \/ kind = "start") /\ sender' = kind

GuardedSend(kind) ==
  IF rejected THEN UNCHANGED <<started, sender>>
  ELSE started' = (started \/ kind = "start") /\ sender' = kind

\* The application sends the start of its answer once, and then the parts.
Send(kind) ==
  /\ at # "called" /\ ~TooLarge /\ sender = "nothing"
  /\ (kind = "start") = (answered = <<>>) /\ Len(answered) <= MaxParts
  /\ answered' = Append(answered, kind)
  /\ GuardedSend(kind)
  /\ UNCHANGED <<declared, at, received, rejected, wire, arrived, given, body>>

Sent ==
  /\ sender # "nothing" /\ sender' = "nothing"
  /\ wire' = Append(wire, <<sender, "app">>)
  /\ UNCHANGED <<declared, at, received, rejected, started, arrived, given, answered, body>>

BodyNext ==
  \/ Call \/ RejectStart \/ RejectPart \/ Sent
  \/ \E e \in Sizes \union {Gone} : Receive(e)
  \/ \E kind \in {"start", "part"} : Send(kind)

BodySpec == BodyInit /\ [][BodyNext]_bodyVars

-----------------------------------------------------------------------------
(* Properties.                                                             *)

BodyTypeOK ==
  /\ declared \in Lengths \union {None}
  /\ at \in {"called", "reading", "rejecting", "rejected", "returned"}
  /\ received \in Nat /\ body \in Nat
  /\ rejected \in BOOLEAN /\ started \in BOOLEAN
  /\ sender \in {"nothing", "start", "part"}
  /\ wire \in Seq(Messages)
  /\ arrived \in Seq(Nat \union {Gone}) /\ given \in Seq(Nat \union {Gone})
  /\ answered \in Seq({"start", "part"})

\* A request gets at most one answer, never parts of two, whenever the limit is passed and
\* whatever the application has sent or still sends.
OneAnswerOnTheWire ==
  /\ \A j, k \in DOMAIN wire : wire[j][1] = "start" /\ wire[k][1] = "start" => j = k
  /\ \A j, k \in DOMAIN wire : wire[j][2] = wire[k][2]

\* A body that is within the limit, as declared and as it arrived before the answer was begun,
\* reaches the application whole and its answer the client, in order; any other is answered
\* 413 and nothing else, and the application, if it was called, is told that the client went
\* in place of the chunk that passed the limit.
BodyLimitIsExact ==
  IF (declared # None /\ declared > MaxBytes) \/ body > MaxBytes
  THEN /\ \A k \in DOMAIN wire : k <= 2 /\ wire[k] = Answer413[k]
       /\ at \in {"reading", "returned"} => wire = Answer413
       /\ at = "reading" => \E k \in DOMAIN given : given[k] = Gone /\ arrived[k] # Gone
  ELSE /\ given = arrived
       /\ [k \in DOMAIN answered |-> <<answered[k], "app">>]
            = (IF sender = "nothing" THEN wire ELSE Append(wire, <<sender, "app">>))
=============================================================================
