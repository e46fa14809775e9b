------------------------------ MODULE SessionPass ------------------------------
(***************************************************************************)
(* The session checks (checks/session): ids that are weak or repeat,       *)
(* ids that survive the login, sessions that survive the logout.  The      *)
(* logout test ends the scan's own session, and the answer to the logout   *)
(* goes through the client, which takes an answer that looks like a lost   *)
(* session as one (http/client.py, http/session.py).                       *)
(***************************************************************************)
EXTENDS Integers, Sequences, FiniteSets, SequencesExt, FiniteSetsExt

MinLength == 16
MinSamples == 3
StepSpread == 4
\* Bits of one character of each alphabet, in thousandths; the smallest that fits is taken.
Bits == [digits |-> 3321, hex |-> 4000, base36 |-> 5169, alphanumeric |-> 5954, base64url |-> 6000,
         printable |-> 6569]

\* judge_value: what one id tells.  A value is [length, alphabet, number, repeats]; numbers and
\* moments stay below 2^31 here.
InEpoch(n) == 978307200 <= n /\ n <= 2147483647
JudgeValue(v) ==
  {r \in {"short"} : v.length < MinLength}
  \union {r \in {"low-entropy"} : v.length * Bits[v.alphabet] < 64000}
  \union (IF v.alphabet # "digits" THEN {}
          ELSE {"numeric"} \union
               IF v.length \in {10, 13} /\ InEpoch(v.number) THEN {"timestamp"}
               ELSE {r \in {"counter"} : v.number < 1000000000})
  \union {r \in {"repeating"} : v.length >= 8 /\ v.repeats}

\* judge_samples: what the ids of several anonymous visits tell, in the order of the visits;
\* ids are numbers here, and flat says that half their characters never change.
JudgeEven(ids, flat) ==
  LET repeated == Len(ids) - Cardinality(ToSet(ids))
      steps == [k \in 1..(Len(ids) - 1) |-> ids[k + 1] - ids[k]]
      sizes == {IF s < 0 THEN -s ELSE s : s \in ToSet(steps)}
      oneway == (\A s \in ToSet(steps) : s > 0) \/ (\A s \in ToSet(steps) : s < 0)
      even == oneway /\ Max(sizes) <= StepSpread * Min(sizes)
  IN {r \in {"duplicates"} : repeated > 0}
     \union {r \in {"sequence"} : even}
     \union {r \in {"timestamp-series"} :
               ~even /\ (\A s \in ToSet(steps) : s > 0) /\ \A n \in ToSet(ids) : InEpoch(n)}
     \union {r \in {"low-variance"} : repeated < Len(ids) - 1 /\ flat}
JudgePairs(ids, flat) == IF Len(ids) < 2 THEN {} ELSE JudgeEven(ids, flat)
JudgeSamples(ids, flat) == IF Len(ids) < MinSamples THEN {} ELSE JudgeEven(ids, flat)

\* _sample: visits until one fails, id 0 for one that got none; an id the crawl saw first stays
\* the one that is judged alone.
Sample(visits) ==
  LET Visit(acc, v) == IF acc.stopped THEN acc
                       ELSE IF ~v.ok THEN [acc EXCEPT !.stopped = TRUE]
                       ELSE IF v.id = 0 THEN acc ELSE [acc EXCEPT !.ids = Append(@, v.id)]
  IN FoldLeft(Visit, [stopped |-> FALSE, ids |-> <<>>], visits).ids

Severity(rules) ==
  IF rules \intersect {"numeric", "timestamp", "counter", "repeating", "duplicates", "sequence",
                       "timestamp-series"} # {} THEN "HIGH" ELSE "MEDIUM"
\* _judge: an id nobody saw is not judged; rules from samples make the finding certain.
Weak(first, visits, flat) ==
  LET ids == Sample(visits)
      sampled == JudgeSamples(ids, flat)
      rules == first.rules \union sampled
  IN IF (~first.seen /\ ids = <<>>) \/ rules = {} THEN [kind |-> "nothing"]
     ELSE [kind |-> "weak", confidence |-> IF sampled # {} THEN "HIGH" ELSE "MEDIUM",
           severity |-> Severity(rules), rules |-> rules]

-----------------------------------------------------------------------------
\* _fixation: cookies kept across the login, each confirmed by asking without it.  A cookie is
\* [name, session, jwt, kept], accepted the sets of cookies the site takes for a session.
MaxFixation == 3
Kept(cookies) == SelectSeq(cookies, LAMBDA k : k.session /\ ~k.jwt /\ k.kept)
\* Asked without the cookie, the reference page was lost; a request that failed says nothing.
LostOrFailed(failed, accepted) == failed \/ ~accepted
Lost(failed, accepted) == ~failed /\ ~accepted
Fixation(cookies, reference, confirmed, accepted, fails) ==
  LET list == Kept(cookies)
      tried == SubSeq(list, 1, Min({Len(list), MaxFixation}))
      all == {k.name : k \in ToSet(cookies)}
  IN IF ~reference \/ ~confirmed THEN {<<k.name, "MEDIUM">> : k \in ToSet(tried)}
     ELSE {<<k.name, "HIGH">> : k \in {c \in ToSet(tried) : Lost(c.name \in fails, all \ {c.name} \in accepted)}}

-----------------------------------------------------------------------------
\* The server's sessions: a logout ends the one it came with, a login makes one, which keeps
\* its id or gets a new one.
EndSession(server, live, id) == IF server.ends THEN live \ {id} ELSE live
NewId(server) == IF server.keepsId THEN "s0" ELSE "s1"

\* The logout's answer seen by the client: one that looks like a lost session is checked when
\* there is a check_url, earns one login, and the logout is then sent once more, with the token
\* of the form it was read with.
LogoutOnce(server) ==
  LET after == EndSession(server, {"s0"}, "s0")
      lost == server.answer = "login page" /\ server.relogin /\ (server.check => "s0" \notin after)
  IN IF lost THEN after \union {NewId(server)} ELSE after
RequestLogout(server) ==
  LET after == EndSession(server, {"s0"}, "s0")
      lost == server.answer = "login page" /\ server.relogin /\ (server.check => "s0" \notin after)
      again == after \union {NewId(server)}
  IN IF ~lost THEN after
     ELSE IF server.tokenOfSession THEN again ELSE EndSession(server, again, NewId(server))

\* _logout, step by step: a reference page that needs the login, a logout to ask for, cookies to
\* replay; a logout that fails ends the test without closing the session.
Logout(server) ==
  LET live == RequestLogout(server)
      skipped == [reported |-> FALSE, closed |-> FALSE, tested |-> FALSE]
  IN IF ~server.reference \/ ~server.endpoint \/ server.public \/ ~server.cookies THEN skipped
     ELSE IF server.answer \in {"failed", "500"} THEN skipped
     ELSE [reported |-> server.replayed /\ "s0" \in live, closed |-> TRUE, tested |-> server.replayed]
=============================================================================
