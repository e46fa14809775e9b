------------------------------ MODULE Accounts -------------------------------
(***************************************************************************)
(* The web API's accounts: first-run setup, login with its throttle,       *)
(* password change and the reset-password command (api/routes/{setup,      *)
(* auth}.py, api/{security,throttle,deps,cli}.py).                         *)
(*                                                                         *)
(* The handlers are plain functions on a pool of threads, so one may run   *)
(* between any two steps of another: between the count and the insert of   *)
(* setup, while a password is being hashed, while the throttle's table is  *)
(* walked.  Time runs in seconds; a token's issue time and the moment of a *)
(* credential change are compared in whole seconds.                        *)
(***************************************************************************)
EXTENDS Integers, Sequences, FiniteSets, FiniteSetsExt, Lists

CONSTANTS
  Clients,          \* who calls, one request at a time
  Names, Passwords,
  MaxClock, MaxTries,  \* bounds: the clock, and the attempts to log in or to reset
  Ttl,              \* how long a token lives, in seconds
  FreeAttempts, MaxDelay, ForgetAfter, MaxKeys,
  NoCookie

ASSUME LimitsAssumption ==
  /\ {MaxClock, Ttl, FreeAttempts, MaxDelay, ForgetAfter, MaxKeys} \subseteq Nat \ {0}
  /\ MaxTries \in Nat
  /\ IsFiniteSet(Clients)

Tokens == [user : Nat, iat : Nat, exp : Nat, password : Passwords, seen : Nat]

ASSUME CookieAssumption == NoCookie \notin Tokens

VARIABLES
  clock,
  users,     \* the table, in the order of the ids: [name, password, changed, committed]
  cookie,    \* each client's session: [user, iat, exp], and what it was obtained with
  failures,  \* the throttle's table, in the order of its dict: [key, count, last, first]
  pc, mem,   \* where each request is, and what its handler holds
  tries,
  early      \* how many setups had counted before the first account was there

vars == <<clock, users, cookie, failures, pc, mem, tries, early>>

Nobody == [name |-> "", password |-> ""]

Init ==
  /\ clock = 0 /\ users = <<>> /\ failures = <<>> /\ tries = 0 /\ early = 0
  /\ cookie = [c \in Clients |-> NoCookie]
  /\ pc = [c \in Clients |-> "idle"] /\ mem = [c \in Clients |-> Nobody]

Keep(c, what) == mem' = [mem EXCEPT ![c] = what]
Goto(c, place) == pc' = [pc EXCEPT ![c] = place]
Answer(c) == Goto(c, "idle") /\ Keep(c, Nobody)

-----------------------------------------------------------------------------
(* First-run setup (routes/setup.py).                                      *)

\* SetupCount without its refusal, and as it is.
SetupAnyway(c) ==
  /\ pc[c] = "idle"
  /\ \E n \in Names, p \in Passwords : Keep(c, [name |-> n, password |-> p])
  /\ Goto(c, "counted")
  /\ UNCHANGED <<clock, users, cookie, failures, tries, early>>
SetupCount(c) == users = <<>> /\ SetupAnyway(c)

\* The insert, after the hash; a name that is taken by then is an error of the database.
SetupInsert(c) ==
  /\ pc[c] = "counted" /\ Answer(c)
  /\ IF \E k \in DOMAIN users : users[k].name = mem[c].name THEN UNCHANGED <<users, early>>
     ELSE /\ users' = Append(users, [name |-> mem[c].name, password |-> mem[c].password,
                                     changed |-> clock, committed |-> clock])
          /\ early' = IF users = <<>> THEN Cardinality({d \in Clients : pc[d] = "counted"})
                      ELSE early
  /\ UNCHANGED <<clock, cookie, failures, tries>>

-----------------------------------------------------------------------------
(* The throttle (throttle.py).  The table is a dict: a key is put at its   *)
(* end when it fails, so that its head is the one that failed longest ago. *)

Keys(c, name) == {<<"client", c>>, <<"user", name>>}
Stale(f) == clock - f.last > ForgetAfter

\* retry_after: the wait of one key, in seconds; and as it would be one attempt late.
Doubled(n) == LET d[i \in 0..n] == IF i = 0 THEN 1 ELSE 2 * d[i - 1] IN d[n]
Wait(f) == Min({MaxDelay, Doubled(f.count - FreeAttempts)}) - (clock - f.last)
DelayLate(f) == IF f.count <= FreeAttempts THEN 0 ELSE Wait(f)
Delay(f) == IF f.count < FreeAttempts THEN 0 ELSE Wait(f)
MustWait(table, keys) == \E k \in DOMAIN table : table[k].key \in keys /\ Delay(table[k]) > 0

\* record_failure for one key: popped and put back at the end, the head dropped when full;
\* and as it would be without the pop.
Room(table) == IF Len(table) >= MaxKeys THEN Tail(table) ELSE table
Again(f) == [f EXCEPT !.count = @ + 1, !.last = clock]
First(key) == [key |-> key, count |-> 1, last |-> clock, first |-> clock]
RecordInPlace(table, key) ==
  IF \E k \in DOMAIN table : table[k].key = key
  THEN [k \in DOMAIN table |-> IF table[k].key = key THEN Again(table[k]) ELSE table[k]]
  ELSE Append(Room(table), First(key))
Record(table, key) ==
  LET mine == {k \in DOMAIN table : table[k].key = key}
  IN Append(Room(At(table, DOMAIN table \ mine)),
            IF mine = {} THEN First(key) ELSE Again(table[CHOOSE k \in mine : TRUE]))

ClearKeys(c, name) ==
  At(failures, {k \in DOMAIN failures : failures[k].key \notin Keys(c, name)})

-----------------------------------------------------------------------------
(* Login (routes/auth.py).                                                 *)

\* _forget walks the table: another thread may change it meanwhile.
LoginWalk(c) ==
  /\ pc[c] = "idle" /\ tries < MaxTries /\ tries' = tries + 1
  /\ \E n \in Names, p \in Passwords : Keep(c, [name |-> n, password |-> p, size |-> Len(failures)])
  /\ Goto(c, "walking")
  /\ UNCHANGED <<clock, users, cookie, failures, early>>

\* A dict that changed its size under the walk raises, and the request is an error; otherwise
\* the stale keys go, and the attempt waits or is let through.
LoginAsk(c) ==
  /\ pc[c] = "walking"
  /\ LET fresh == At(failures, {k \in DOMAIN failures : ~Stale(failures[k])}) IN
     IF Len(failures) # mem[c].size THEN Answer(c) /\ UNCHANGED failures
     ELSE /\ failures' = fresh
          /\ IF MustWait(fresh, Keys(c, mem[c].name)) THEN Answer(c)
             ELSE Goto(c, "asked") /\ UNCHANGED mem
  /\ UNCHANGED <<clock, users, cookie, tries, early>>

\* The row as it is now; an unknown name is checked against a hash nobody knows.
LoginRead(c) ==
  /\ pc[c] = "asked" /\ Goto(c, "read")
  /\ LET ids == {k \in DOMAIN users : users[k].name = mem[c].name}
     IN Keep(c, [name |-> mem[c].name, password |-> mem[c].password,
                 user |-> IF ids = {} THEN 0 ELSE CHOOSE k \in ids : TRUE,
                 right |-> \E k \in ids : users[k].password = mem[c].password,
                 seen |-> clock])
  /\ UNCHANGED <<clock, users, cookie, failures, tries, early>>

\* Argon2 is done: a success forgets the failures, a failure is recorded, one key after the
\* other.
LoginVerify(c) ==
  /\ pc[c] = "read"
  /\ IF mem[c].right
     THEN failures' = ClearKeys(c, mem[c].name) /\ Goto(c, "verified")
     ELSE failures' = Record(failures, <<"client", c>>) /\ Goto(c, "recording")
  /\ UNCHANGED <<clock, users, cookie, mem, tries, early>>
LoginRecord(c) ==
  /\ pc[c] = "recording" /\ Answer(c)
  /\ failures' = Record(failures, <<"user", mem[c].name>>)
  /\ UNCHANGED <<clock, users, cookie, tries, early>>

Token(user, password, seen) ==
  [user |-> user, iat |-> clock, exp |-> clock + Ttl, password |-> password,
   seen |-> seen]

LoginMint(c) ==
  /\ pc[c] = "verified" /\ Answer(c)
  /\ cookie' = [cookie EXCEPT ![c] = Token(mem[c].user, mem[c].password, mem[c].seen)]
  /\ UNCHANGED <<clock, users, failures, tries, early>>

Logout(c) ==
  /\ pc[c] = "idle" /\ cookie[c] # NoCookie
  /\ cookie' = [cookie EXCEPT ![c] = NoCookie]
  /\ UNCHANGED <<clock, users, failures, pc, mem, tries, early>>

-----------------------------------------------------------------------------
(* Who is signed in (deps.optional_user), and changing the password.       *)

AcceptedAnyAge(token) ==
  token # NoCookie /\ clock < token.exp /\ token.user \in DOMAIN users
Accepted(token) ==
  /\ token # NoCookie /\ clock < token.exp /\ token.user \in DOMAIN users
  /\ token.iat >= users[token.user].changed

\* current_user loads the row; the current password is verified against that copy.
ChangeVerify(c) ==
  /\ pc[c] = "idle" /\ Accepted(cookie[c])
  /\ \E new \in Passwords :
       /\ new # users[cookie[c].user].password
       /\ Keep(c, [user |-> cookie[c].user, password |-> new])
  /\ Goto(c, "changing")
  /\ UNCHANGED <<clock, users, cookie, failures, tries, early>>

\* The new hash is ready: the row is stamped in memory, and committed later.
ChangeStamp(c) ==
  /\ pc[c] = "changing" /\ Goto(c, "stamped")
  /\ Keep(c, [user |-> mem[c].user, password |-> mem[c].password, stamp |-> clock])
  /\ UNCHANGED <<clock, users, cookie, failures, tries, early>>

ChangeCommit(c) ==
  /\ pc[c] = "stamped" /\ Goto(c, "changed")
  /\ users' = [users EXCEPT ![mem[c].user] = [@ EXCEPT !.password = mem[c].password,
                                                !.changed = mem[c].stamp, !.committed = clock]]
  /\ UNCHANGED <<clock, cookie, failures, mem, tries, early>>

\* The token of the change is made after the stamp, so the change does not sign out its author.
ChangeMintOld(c) ==
  /\ pc[c] = "changed" /\ Answer(c)
  /\ UNCHANGED <<clock, users, cookie, failures, tries, early>>
ChangeMint(c) ==
  /\ pc[c] = "changed" /\ Answer(c)
  /\ cookie' = [cookie EXCEPT ![c] = Token(mem[c].user, mem[c].password, mem[c].stamp)]
  /\ UNCHANGED <<clock, users, failures, tries, early>>

\* webvigil-web reset-password, a process of its own: the first row, or the one named.
ResetPassword ==
  /\ tries < MaxTries /\ tries' = tries + 1
  /\ \E k \in DOMAIN users, p \in Passwords :
       users' = [users EXCEPT ![k] = [@ EXCEPT !.password = p, !.changed = clock,
                                        !.committed = clock]]
  /\ UNCHANGED <<clock, cookie, failures, pc, mem, early>>

\* A second passes; the two keys of one failure are recorded within the same one.
Pass ==
  /\ clock < MaxClock /\ clock' = clock + 1
  /\ \A c \in Clients : pc[c] # "recording"
  /\ UNCHANGED <<users, cookie, failures, pc, mem, tries, early>>

Next ==
  \/ \E c \in Clients :
       \/ SetupCount(c) \/ SetupInsert(c)
       \/ LoginWalk(c) \/ LoginAsk(c) \/ LoginRead(c) \/ LoginVerify(c) \/ LoginRecord(c)
       \/ LoginMint(c) \/ Logout(c)
       \/ ChangeVerify(c) \/ ChangeStamp(c) \/ ChangeCommit(c) \/ ChangeMint(c)
  \/ ResetPassword \/ Pass

Spec == Init /\ [][Next]_vars

-----------------------------------------------------------------------------
(* Properties.                                                             *)

\* Every variable keeps its shape: the rows, the sessions, the throttle's table and the place
\* each request has reached.
TypeOK ==
  /\ clock \in 0..MaxClock /\ tries \in 0..MaxTries /\ early \in 0..Cardinality(Clients)
  /\ \A k \in DOMAIN users :
       users[k] \in [name : Names, password : Passwords, changed : 0..clock, committed : 0..clock]
  /\ \A c \in Clients :
       /\ cookie[c] = NoCookie
          \/ cookie[c] \in [user : DOMAIN users, iat : 0..clock, exp : Ttl..(clock + Ttl),
                            password : Passwords, seen : 0..clock]
       /\ pc[c] \in {"idle", "counted", "walking", "asked", "read", "recording", "verified",
                      "changing", "stamped", "changed"}
       /\ (pc[c] = "idle") = (mem[c] = Nobody)
  /\ \A k \in DOMAIN failures :
       /\ failures[k].count \in 1..MaxTries
       /\ failures[k].first <= failures[k].last /\ failures[k].last <= clock
       /\ \A i \in DOMAIN failures : failures[i].key = failures[k].key => i = k

\* The table of failed logins never outgrows its cap, and its head, the one to be dropped, is
\* always the key that failed longest ago.
TableInOrder ==
  /\ Len(failures) <= MaxKeys
  /\ \A i, j \in DOMAIN failures : i < j => failures[i].last <= failures[j].last

\* Setup closes behind the first account: a second one exists only if its request had counted
\* before the first was committed.
SetupOnlyRaces == Len(users) <= 1 \/ Len(users) <= early

\* Guessing is slow: beyond the free attempts, the failures counted against one key in a row
\* are at most those in flight together, once more for every second that passed.
GuessingIsSlow ==
  \A k \in DOMAIN failures :
    LET f == failures[k]
    IN f.count <= FreeAttempts - 1 + Cardinality(Clients) * (1 + f.last - f.first)

\* The throttle holds: it forgets nobody out of turn, and so guessing stays slow.
ThrottleHolds == TableInOrder /\ GuessingIsSlow

\* A credential change ends the sessions obtained with the former password, but for those made
\* in the very second of the change or by a login that had read the row before the commit.
OnlyRacesOutliveAChange ==
  \A c \in Clients :
    LET t == cookie[c] IN
    Accepted(t) /\ t.password # users[t.user].password =>
      t.seen <= users[t.user].committed /\ t.iat >= users[t.user].changed

\* Who changes the password stays signed in, unless it was changed again meanwhile.
ChangerStaysIn ==
  [][\A c \in Clients :
       pc[c] = "changed" /\ pc'[c] = "idle" /\ users[mem[c].user].changed = mem[c].stamp =>
         Accepted(cookie[c])']_vars

\* A change of credentials decides who is signed in: the others no longer, the changer still.
ChangeDecides == []OnlyRacesOutliveAChange /\ ChangerStaysIn
=============================================================================
