---------------------------- MODULE WebApiProofs ----------------------------
(***************************************************************************)
(* The web API, for any number of clients, names and limits: first-run     *)
(* setup, changes of credentials and the throttle of failed logins, each   *)
(* with an inductive invariant of its own, and the limit on bodies.        *)
(***************************************************************************)
EXTENDS Accounts, BodyLimit, ListProofs, FiniteSetTheorems, TLAPS

-----------------------------------------------------------------------------
(* First-run setup.                                                        *)

\* The setups that have counted and not inserted yet.
Counted == {d \in Clients : pc[d] = "counted"}

\* Once there is an account nobody counts an empty table any more, so the setups still to
\* insert are what is left of those that had counted before it.
Inv ==
  /\ DOMAIN pc = Clients
  /\ \E S : users \in Seq(S)
  /\ early \in Nat
  /\ users # <<>> => Len(users) + Cardinality(Counted) <= early

LEMMA CountedIsFinite ==
  /\ IsFiniteSet(Counted) /\ Cardinality(Counted) \in Nat
  /\ IsFiniteSet(Counted') /\ Cardinality(Counted') \in Nat
  BY LimitsAssumption, FS_Subset, FS_CardinalityType DEF Counted

\* A request that is not counted leaves the number of those that are as it is.
LEMMA OthersCount ==
  ASSUME Inv, NEW c \in Clients, NEW p, pc[c] # "counted", p # "counted",
         pc' = [pc EXCEPT ![c] = p]
  PROVE  Counted' = Counted /\ DOMAIN pc' = Clients
  BY DEF Inv, Counted

\* A row that is written anew leaves the number of the rows as it is.
LEMMA RowsKeepNumber ==
  ASSUME NEW u, NEW S, u \in Seq(S), NEW k \in DOMAIN u, NEW row
  PROVE  /\ [u EXCEPT ![k] = row] \in Seq(S \union {row})
         /\ Len([u EXCEPT ![k] = row]) = Len(u)
         /\ u # <<>>
  <1>1. u \in Seq(S \union {row}) /\ k \in 1..Len(u)
    OBVIOUS
  <1> QED
    BY <1>1

-----------------------------------------------------------------------------

LEMMA InsertPreserves == ASSUME Inv, NEW c \in Clients, SetupInsert(c) PROVE Inv'
  <1>1. pc[c] = "counted" /\ pc' = [pc EXCEPT ![c] = "idle"]
    BY DEF SetupInsert, Answer, Goto
  <1>2. Counted' = Counted \ {c} /\ c \in Counted /\ DOMAIN pc' = Clients
    BY <1>1 DEF Inv, Counted
  <1>3. Cardinality(Counted') = Cardinality(Counted) - 1
    BY <1>2, CountedIsFinite, FS_RemoveElement
  <1>4. PICK S : users \in Seq(S)
    BY DEF Inv
  <1>5. CASE users' = users /\ early' = early
    BY <1>2, <1>3, <1>4, <1>5, CountedIsFinite DEF Inv
  <1>6. ASSUME NEW row, users' = Append(users, row),
               early' = IF users = <<>> THEN Cardinality(Counted) ELSE early
        PROVE  Inv'
    <2>1. users' \in Seq(S \union {row}) /\ Len(users') = Len(users) + 1
      BY <1>4, <1>6
    <2>2. users = <<>> => Len(users) = 0
      BY <1>4
    <2>3. early' \in Nat /\ Len(users') + Cardinality(Counted') <= early'
      BY <1>3, <1>4, <1>6, <2>1, <2>2, CountedIsFinite DEF Inv
    <2> QED
      BY <1>2, <2>1, <2>3 DEF Inv
  <1> QED
    BY <1>5, <1>6 DEF SetupInsert, Counted

LEMMA CountPreserves == ASSUME Inv, NEW c \in Clients, SetupCount(c) PROVE Inv'
  BY DEF SetupCount, SetupAnyway, Goto, Inv

\* The other steps of a client: none of them is a setup's.
Elsewhere(c) ==
  \/ LoginWalk(c) \/ LoginAsk(c) \/ LoginRead(c) \/ LoginVerify(c) \/ LoginRecord(c)
  \/ LoginMint(c) \/ Logout(c)
  \/ ChangeVerify(c) \/ ChangeStamp(c) \/ ChangeCommit(c) \/ ChangeMint(c)

LEMMA ElsewherePreserves == ASSUME Inv, NEW c \in Clients, Elsewhere(c) PROVE Inv'
  <1>1. early' = early
    BY DEF Elsewhere, LoginWalk, LoginAsk, LoginRead, LoginVerify, LoginRecord, LoginMint, Logout,
       ChangeVerify, ChangeStamp, ChangeCommit, ChangeMint
  <1>2. Counted' = Counted /\ DOMAIN pc' = Clients
    <2>1. CASE pc' = pc
      BY <2>1 DEF Inv, Counted
    <2>2. CASE \E p : p # "counted" /\ pc[c] # "counted" /\ pc' = [pc EXCEPT ![c] = p]
      BY <2>2, OthersCount
    <2> QED
      BY <2>1, <2>2
      DEF Elsewhere, LoginWalk, LoginAsk, LoginRead, LoginVerify, LoginRecord, LoginMint, Logout,
          ChangeVerify, ChangeStamp, ChangeCommit, ChangeMint, Goto, Answer
  <1>3. (\E S : users' \in Seq(S)) /\ (users' # <<>> => users # <<>> /\ Len(users') = Len(users))
    <2>1. CASE users' = users
      BY <2>1 DEF Inv
    <2>2. CASE ChangeCommit(c)
      <3>1. PICK S : users \in Seq(S)
        BY DEF Inv
      <3>2. PICK row : users' = [users EXCEPT ![mem[c].user] = row]
        BY <2>2, Zenon DEF ChangeCommit
      <3>3. CASE mem[c].user \in DOMAIN users
        BY <3>1, <3>2, <3>3, RowsKeepNumber
      <3>4. CASE mem[c].user \notin DOMAIN users
        BY <2>1, <3>1, <3>2, <3>4
      <3> QED
        BY <3>3, <3>4
    <2> QED
      BY <2>1, <2>2
      DEF Elsewhere, LoginWalk, LoginAsk, LoginRead, LoginVerify, LoginRecord, LoginMint, Logout,
          ChangeVerify, ChangeStamp, ChangeMint
  <1> QED
    BY <1>1, <1>2, <1>3 DEF Inv

LEMMA ResetPreserves == ASSUME Inv, ResetPassword PROVE Inv'
  <1>1. PICK S : users \in Seq(S)
    BY DEF Inv
  <1>2. PICK k \in DOMAIN users : \E row : users' = [users EXCEPT ![k] = row]
    BY DEF ResetPassword
  <1>3. PICK row : users' = [users EXCEPT ![k] = row]
    BY <1>2
  <1>4. Len(users') = Len(users) /\ users # <<>> /\ users' \in Seq(S \union {row})
    BY <1>1, <1>3, RowsKeepNumber
  <1>5. pc' = pc /\ early' = early /\ Counted' = Counted
    BY DEF ResetPassword, Counted
  <1> QED
    BY <1>4, <1>5 DEF Inv

LEMMA NextPreserves == ASSUME Inv, [Next]_vars PROVE Inv'
  <1>1. CASE \E c \in Clients : SetupCount(c) \/ SetupInsert(c) \/ Elsewhere(c)
    BY <1>1, CountPreserves, InsertPreserves, ElsewherePreserves
  <1>2. CASE ResetPassword
    BY <1>2, ResetPreserves
  <1>3. CASE Pass \/ UNCHANGED vars
    BY <1>3 DEF Pass, vars, Inv, Counted
  <1> QED
    BY <1>1, <1>2, <1>3 DEF Next, Elsewhere

\* routes/setup.py: however many clients set the application up at once, there are never more
\* accounts than setups that had counted none before the first was committed.
THEOREM SetupCloses == Spec => []SetupOnlyRaces
  <1>1. Init => Inv
    BY DEF Init, Inv
  <1>2. Inv => SetupOnlyRaces
    <2> SUFFICES ASSUME Inv PROVE SetupOnlyRaces
      OBVIOUS
    <2>1. PICK S : users \in Seq(S)
      BY DEF Inv
    <2> QED
      BY <2>1, CountedIsFinite DEF Inv, SetupOnlyRaces
  <1> QED
    BY <1>1, <1>2, NextPreserves, PTL DEF Spec

-----------------------------------------------------------------------------
(* A change of credentials.                                                *)

Rows == [name : Names, password : Passwords, changed : Nat, committed : Nat]

\* The row of the user u was read at the moment seen, its password being the one given: it still
\* is, or the row was committed anew since.
Obtained(u, password, seen) ==
  /\ u \in DOMAIN users /\ password \in Passwords /\ seen \in Nat /\ seen <= clock
  /\ users[u].password = password \/ seen <= users[u].committed

RowsInv ==
  /\ clock \in Nat /\ users \in Seq(Rows)
  /\ \A k \in DOMAIN users : users[k].changed <= clock /\ users[k].committed <= clock
  /\ \A i, k \in DOMAIN users : users[i].name = users[k].name => i = k

CookieInv(c) ==
  cookie[c] # NoCookie =>
    /\ cookie[c] \in Tokens
    /\ Obtained(cookie[c].user, cookie[c].password, cookie[c].seen)

\* What a handler holds, at each place where another may come in.
Asking(c) ==
  pc[c] \in {"counted", "walking", "asked", "read"} =>
    mem[c].name \in Names /\ mem[c].password \in Passwords
Reading(c) ==
  pc[c] = "verified" \/ (pc[c] = "read" /\ mem[c].right) =>
    Obtained(mem[c].user, mem[c].password, mem[c].seen)
Changing(c) ==
  /\ pc[c] \in {"changing", "stamped", "changed"} =>
       mem[c].user \in DOMAIN users /\ mem[c].password \in Passwords
  /\ pc[c] \in {"stamped", "changed"} => mem[c].stamp \in Nat /\ mem[c].stamp <= clock
  /\ pc[c] = "changed" => Obtained(mem[c].user, mem[c].password, mem[c].stamp)

ClientInv(c) == CookieInv(c) /\ Asking(c) /\ Reading(c) /\ Changing(c)

CInv ==
  /\ DOMAIN pc = Clients /\ DOMAIN mem = Clients /\ DOMAIN cookie = Clients
  /\ RowsInv
  /\ \A c \in Clients : ClientInv(c)

\* What any step does to the rows: none goes away, and one that is written anew is committed.
Advances ==
  /\ clock' \in Nat /\ clock <= clock' /\ DOMAIN users \subseteq DOMAIN users'
  /\ \A k \in DOMAIN users :
       \/ users'[k].password = users[k].password /\ users'[k].committed = users[k].committed
       \/ users'[k].committed = clock

LEMMA ObtainedStays ==
  ASSUME RowsInv, Advances, NEW u, NEW p, NEW s, Obtained(u, p, s)
  PROVE  /\ u \in DOMAIN users' /\ p \in Passwords /\ s \in Nat /\ s <= clock'
         /\ users'[u].password = p \/ s <= users'[u].committed
  <1>1. /\ u \in DOMAIN users /\ p \in Passwords /\ s \in Nat /\ s <= clock /\ clock \in Nat
        /\ users[u].password = p \/ s <= users[u].committed
    BY DEF Obtained, RowsInv
  <1>2. /\ u \in DOMAIN users' /\ clock' \in Nat /\ clock <= clock'
        /\ \/ users'[u].password = users[u].password /\ users'[u].committed = users[u].committed
           \/ users'[u].committed = clock
    BY <1>1 DEF Advances
  <1>3. users'[u].password = p \/ s <= users'[u].committed
    BY <1>1, <1>2
  <1> QED
    BY <1>1, <1>2, <1>3

\* A client that does nothing keeps what it holds.
LEMMA OthersKeep ==
  ASSUME CInv, Advances, NEW c \in Clients,
         pc'[c] = pc[c], mem'[c] = mem[c], cookie'[c] = cookie[c]
  PROVE  ClientInv(c)'
  <1>1. ClientInv(c) /\ RowsInv
    BY DEF CInv
  <1>2. CookieInv(c)'
    BY <1>1, ObtainedStays DEF ClientInv, CookieInv, Obtained
  <1>3. Asking(c)'
    BY <1>1 DEF ClientInv, Asking
  <1>4. Reading(c)'
    BY <1>1, ObtainedStays DEF ClientInv, Reading, Obtained
  <1>5. Changing(c)'
    <2>1. DOMAIN users \subseteq DOMAIN users' /\ clock <= clock' /\ clock' \in Nat /\ clock \in Nat
      BY <1>1 DEF Advances, RowsInv
    <2>2. ASSUME pc[c] \in {"stamped", "changed"} PROVE mem[c].stamp \in Nat /\ mem[c].stamp <= clock'
      <3>1. mem[c].stamp \in Nat /\ mem[c].stamp <= clock
        BY <1>1, <2>2 DEF ClientInv, Changing
      <3> QED
        BY <2>1, <3>1
    <2>3. ASSUME pc[c] \in {"changing", "stamped", "changed"}
          PROVE  mem[c].user \in DOMAIN users' /\ mem[c].password \in Passwords
      BY <1>1, <2>1, <2>3 DEF ClientInv, Changing
    <2>4. (pc[c] = "changed" => Obtained(mem[c].user, mem[c].password, mem[c].stamp))'
      BY <1>1, ObtainedStays DEF ClientInv, Changing, Obtained
    <2> QED
      BY <2>2, <2>3, <2>4 DEF Changing
  <1> QED
    BY <1>2, <1>3, <1>4, <1>5 DEF ClientInv

\* The rows as they were, a row more, or a row written anew.
LEMMA RowsStay ==
  ASSUME RowsInv, users' = users, clock' \in {clock, clock + 1}
  PROVE  RowsInv' /\ Advances
  <1>1. \A k \in DOMAIN users : users[k] \in Rows
    BY DEF RowsInv
  <1> QED
    BY <1>1 DEF RowsInv, Advances, Rows

LEMMA RowAdded ==
  ASSUME RowsInv, clock' = clock, NEW n \in Names, NEW p \in Passwords,
         \A k \in DOMAIN users : users[k].name # n,
         users' = Append(users, [name |-> n, password |-> p, changed |-> clock, committed |-> clock])
  PROVE  RowsInv' /\ Advances
  <1> DEFINE row == [name |-> n, password |-> p, changed |-> clock, committed |-> clock]
  <1>1. row \in Rows /\ row.name = n /\ row.changed = clock /\ row.committed = clock
    BY DEF Rows, RowsInv
  <1>2. users' = Append(users, row) /\ users \in Seq(Rows) /\ clock \in Nat
    BY DEF RowsInv
  <1> HIDE DEF row
  <1>3. /\ users' \in Seq(Rows) /\ DOMAIN users = 1..Len(users) /\ Len(users) \in Nat
        /\ DOMAIN users' = 1..(Len(users) + 1) /\ users'[Len(users) + 1] = row
        /\ \A k \in DOMAIN users : users'[k] = users[k]
    BY <1>1, <1>2
  <1>4. \A k \in DOMAIN users' : k \in DOMAIN users \/ k = Len(users) + 1
    BY <1>3
  <1>5. \A k \in DOMAIN users' : users'[k].changed <= clock /\ users'[k].committed <= clock
    BY <1>1, <1>2, <1>3, <1>4 DEF RowsInv
  <1>6. \A i, k \in DOMAIN users' : users'[i].name = users'[k].name => i = k
    BY <1>1, <1>3, <1>4 DEF RowsInv
  <1>7. Advances
    BY <1>2, <1>3 DEF Advances
  <1> QED
    BY <1>2, <1>3, <1>5, <1>6, <1>7 DEF RowsInv

LEMMA RowWritten ==
  ASSUME RowsInv, clock' = clock, NEW k \in DOMAIN users, NEW p \in Passwords,
         NEW stamp \in Nat, stamp <= clock,
         users' = [users EXCEPT ![k] = [@ EXCEPT !.password = p, !.changed = stamp,
                                          !.committed = clock]]
  PROVE  /\ RowsInv' /\ Advances
         /\ users'[k].password = p /\ users'[k].changed = stamp /\ users'[k].committed = clock
  <1> DEFINE row == [users[k] EXCEPT !.password = p, !.changed = stamp, !.committed = clock]
  <1>1. users[k] \in Rows /\ users \in Seq(Rows) /\ clock \in Nat
    BY DEF RowsInv
  <1>2. /\ row \in Rows /\ row.name = users[k].name /\ row.password = p
        /\ row.changed = stamp /\ row.committed = clock
    BY <1>1 DEF Rows
  <1>3. users' = [users EXCEPT ![k] = row]
    OBVIOUS
  <1> HIDE DEF row
  <1>4. /\ users' \in Seq(Rows) /\ DOMAIN users' = DOMAIN users /\ users'[k] = row
        /\ \A i \in DOMAIN users : i # k => users'[i] = users[i]
    BY <1>1, <1>2, <1>3
  <1>5. \A i \in DOMAIN users' : users'[i].changed <= clock /\ users'[i].committed <= clock
    BY <1>1, <1>2, <1>4 DEF RowsInv
  <1>6. \A i \in DOMAIN users : users'[i].name = users[i].name
    BY <1>2, <1>4
  <1>7. \A i, j \in DOMAIN users' : users'[i].name = users'[j].name => i = j
    BY <1>4, <1>6 DEF RowsInv
  <1>8. Advances
    BY <1>1, <1>2, <1>4 DEF Advances
  <1> QED
    BY <1>1, <1>2, <1>4, <1>5, <1>7, <1>8 DEF RowsInv

-----------------------------------------------------------------------------

\* A step of c: the rows are in order and the others have done nothing.
Mine(c) ==
  /\ RowsInv' /\ Advances
  /\ DOMAIN pc' = Clients /\ DOMAIN mem' = Clients /\ DOMAIN cookie' = Clients
  /\ \A d \in Clients \ {c} : pc'[d] = pc[d] /\ mem'[d] = mem[d] /\ cookie'[d] = cookie[d]

LEMMA MineIsEnough ==
  ASSUME CInv, NEW c \in Clients, Mine(c), ClientInv(c)' PROVE CInv'
  <1>1. \A d \in Clients \ {c} : ClientInv(d)'
    BY OthersKeep DEF Mine
  <1> QED
    BY <1>1 DEF CInv, Mine

\* A request that is over, its session as it was.
LEMMA AnswerKeeps ==
  ASSUME CInv, NEW c \in Clients, Answer(c), cookie' = cookie, RowsInv', Advances
  PROVE  CInv'
  <1>1. pc' = [pc EXCEPT ![c] = "idle"] /\ mem' = [mem EXCEPT ![c] = Nobody]
    BY DEF Answer, Goto, Keep
  <1>2. Mine(c) /\ pc'[c] = "idle"
    BY <1>1 DEF CInv, Mine
  <1>3. CookieInv(c)'
    BY ObtainedStays DEF CInv, ClientInv, CookieInv, Obtained
  <1>4. ClientInv(c)'
    BY <1>2, <1>3 DEF ClientInv, Asking, Reading, Changing
  <1> QED
    BY <1>2, <1>4, MineIsEnough

\* A request that goes on, holding m, the rows and its session as they were.
LEMMA GoesOn ==
  ASSUME CInv, NEW c \in Clients, NEW place, NEW m,
         pc' = [pc EXCEPT ![c] = place], mem' = [mem EXCEPT ![c] = m] \/ (mem' = mem /\ m = mem[c]),
         UNCHANGED <<clock, users, cookie>>
  PROVE  /\ Mine(c) /\ CookieInv(c)' /\ pc'[c] = place /\ mem'[c] = m /\ ClientInv(c) /\ RowsInv
         /\ clock \in Nat
  <1>1. RowsInv' /\ Advances
    BY RowsStay DEF CInv
  <1>2. Mine(c)
    BY <1>1 DEF CInv, Mine
  <1>3. CookieInv(c)'
    BY <1>1, ObtainedStays DEF CInv, ClientInv, CookieInv, Obtained
  <1> QED
    BY <1>2, <1>3 DEF CInv, RowsInv

LEMMA SetupStepsKeep == ASSUME CInv, NEW c \in Clients, SetupCount(c) \/ SetupInsert(c) PROVE CInv'
  <1>1. CASE SetupCount(c)
    <2>1. PICK n \in Names, p \in Passwords : mem' = [mem EXCEPT ![c] = [name |-> n, password |-> p]]
      BY <1>1 DEF SetupCount, SetupAnyway, Keep
    <2>2. pc' = [pc EXCEPT ![c] = "counted"] /\ UNCHANGED <<clock, users, cookie>>
      BY <1>1 DEF SetupCount, SetupAnyway, Goto
    <2>3. /\ Mine(c) /\ CookieInv(c)' /\ pc'[c] = "counted"
          /\ mem'[c] = [name |-> n, password |-> p]
      BY <2>1, <2>2, GoesOn
    <2>4. ClientInv(c)'
      BY <2>3 DEF ClientInv, Asking, Reading, Changing
    <2> QED
      BY <2>3, <2>4, MineIsEnough
  <1>2. CASE SetupInsert(c)
    <2>1. Answer(c) /\ UNCHANGED <<clock, cookie>> /\ pc[c] = "counted"
      BY <1>2 DEF SetupInsert
    <2>2. mem[c].name \in Names /\ mem[c].password \in Passwords /\ RowsInv
      BY <2>1 DEF CInv, ClientInv, Asking
    <2>3. RowsInv' /\ Advances
      <3>1. CASE \E k \in DOMAIN users : users[k].name = mem[c].name
        BY <1>2, <2>1, <2>2, <3>1, RowsStay DEF SetupInsert
      <3>2. CASE ~ \E k \in DOMAIN users : users[k].name = mem[c].name
        <4>1. users' = Append(users, [name |-> mem[c].name, password |-> mem[c].password,
                                      changed |-> clock, committed |-> clock])
          BY <1>2, <3>2 DEF SetupInsert
        <4> QED
          BY <2>1, <2>2, <3>2, <4>1, RowAdded
      <3> QED
        BY <3>1, <3>2
    <2> QED
      BY <2>1, <2>3, AnswerKeeps
  <1> QED
    BY <1>1, <1>2

LEMMA LoginStepsKeep ==
  ASSUME CInv, NEW c \in Clients,
         \/ LoginWalk(c) \/ LoginAsk(c) \/ LoginRead(c) \/ LoginVerify(c) \/ LoginRecord(c)
         \/ LoginMint(c) \/ Logout(c)
  PROVE  CInv'
  <1>1. CASE LoginWalk(c)
    <2>1. PICK n \in Names, p \in Passwords :
            mem' = [mem EXCEPT ![c] = [name |-> n, password |-> p, size |-> Len(failures)]]
      BY <1>1 DEF LoginWalk, Keep
    <2>2. pc' = [pc EXCEPT ![c] = "walking"] /\ UNCHANGED <<clock, users, cookie>>
      BY <1>1 DEF LoginWalk, Goto
    <2>3. /\ Mine(c) /\ CookieInv(c)' /\ pc'[c] = "walking"
          /\ mem'[c] = [name |-> n, password |-> p, size |-> Len(failures)]
      BY <2>1, <2>2, GoesOn
    <2>4. ClientInv(c)'
      BY <2>3 DEF ClientInv, Asking, Reading, Changing
    <2> QED
      BY <2>3, <2>4, MineIsEnough
  <1>2. ASSUME Answer(c), UNCHANGED <<clock, users, cookie>> PROVE CInv'
    BY <1>2, RowsStay, AnswerKeeps DEF CInv
  <1>3. ASSUME NEW place \in {"asked", "recording", "verified"}, Goto(c, place), UNCHANGED <<clock, users, cookie, mem>>,
               place = "asked" => pc[c] = "walking",
               place = "verified" => pc[c] = "read" /\ mem[c].right
        PROVE  CInv'
    <2>1. pc' = [pc EXCEPT ![c] = place] /\ mem' = mem
      BY <1>3 DEF Goto
    <2>2. Mine(c) /\ CookieInv(c)' /\ pc'[c] = place /\ mem'[c] = mem[c] /\ ClientInv(c)
      BY <1>3, <2>1, GoesOn
    <2>3. ClientInv(c)'
      BY <1>3, <2>2 DEF ClientInv, Asking, Reading, Changing, Obtained
    <2> QED
      BY <2>2, <2>3, MineIsEnough
  <1>4. CASE LoginAsk(c)
    <2>1. pc[c] = "walking" /\ UNCHANGED <<clock, users, cookie>>
      BY <1>4 DEF LoginAsk
    <2>2. Answer(c) \/ (Goto(c, "asked") /\ UNCHANGED mem)
      BY <1>4 DEF LoginAsk
    <2> QED
      BY <1>2, <1>3, <2>1, <2>2
  <1>5. CASE LoginVerify(c)
    <2>1. pc[c] = "read" /\ UNCHANGED <<clock, users, cookie>>
      BY <1>5 DEF LoginVerify
    <2>2. UNCHANGED mem /\ (Goto(c, "recording") \/ (mem[c].right /\ Goto(c, "verified")))
      BY <1>5 DEF LoginVerify
    <2> QED
      BY <1>3, <2>1, <2>2
  <1>6. CASE LoginRead(c)
    <2> DEFINE ids == {k \in DOMAIN users : users[k].name = mem[c].name}
               id == IF ids = {} THEN 0 ELSE CHOOSE k \in ids : TRUE
               right == \E k \in ids : users[k].password = mem[c].password
               m == [name |-> mem[c].name, password |-> mem[c].password, user |-> id,
                     right |-> right, seen |-> clock]
    <2>1. pc[c] = "asked" /\ pc' = [pc EXCEPT ![c] = "read"] /\ UNCHANGED <<clock, users, cookie>>
      BY <1>6 DEF LoginRead, Goto
    <2>2. mem' = [mem EXCEPT ![c] = m]
      BY <1>6 DEF LoginRead, Keep
    <2>3. /\ m.name = mem[c].name /\ m.password = mem[c].password /\ m.user = id
          /\ m.right = right /\ m.seen = clock
      OBVIOUS
    <2>4. right => id \in DOMAIN users /\ users[id].password = mem[c].password
      <3>1. \A i, k \in ids : i = k
        BY DEF CInv, RowsInv
      <3> QED
        BY <3>1
    <2> HIDE DEF m, right, id
    <2>5. Mine(c) /\ CookieInv(c)' /\ pc'[c] = "read" /\ mem'[c] = m /\ ClientInv(c) /\ clock \in Nat
      BY <2>1, <2>2, GoesOn
    <2>6. mem[c].name \in Names /\ mem[c].password \in Passwords
      BY <2>1, <2>5 DEF ClientInv, Asking
    <2>7. right => id \in DOMAIN users' /\ users'[id].password = mem[c].password /\ clock' = clock
      BY <2>1, <2>4
    <2>8. ClientInv(c)'
      <3>1. Asking(c)' /\ Changing(c)'
        BY <2>3, <2>5, <2>6 DEF Asking, Changing
      <3>2. Reading(c)'
        <4>1. SUFFICES ASSUME right PROVE Obtained(mem[c].user, mem[c].password, mem[c].seen)'
          BY <2>3, <2>5 DEF Reading
        <4> QED
          BY <2>3, <2>5, <2>6, <2>7, <4>1 DEF Obtained
      <3> QED
        BY <2>5, <3>1, <3>2 DEF ClientInv
    <2> QED
      BY <2>5, <2>8, MineIsEnough
  <1>7. CASE LoginMint(c)
    <2> DEFINE t == Token(mem[c].user, mem[c].password, mem[c].seen)
    <2>1. /\ pc[c] = "verified" /\ pc' = [pc EXCEPT ![c] = "idle"] /\ mem' = [mem EXCEPT ![c] = Nobody]
          /\ cookie' = [cookie EXCEPT ![c] = t] /\ UNCHANGED <<clock, users>>
      BY <1>7 DEF LoginMint, Answer, Goto, Keep
    <2>2. ClientInv(c) /\ RowsInv /\ clock \in Nat /\ users \in Seq(Rows)
      BY DEF CInv, RowsInv
    <2>3. Obtained(mem[c].user, mem[c].password, mem[c].seen)
      BY <2>1, <2>2 DEF ClientInv, Reading
    <2>4. /\ t \in Tokens /\ t.user = mem[c].user /\ t.password = mem[c].password
          /\ t.seen = mem[c].seen
      BY <2>2, <2>3, LimitsAssumption DEF Obtained, Tokens, Token
    <2>5. RowsInv' /\ Advances
      BY <2>1, <2>2, RowsStay
    <2> HIDE DEF t
    <2>6. Mine(c) /\ pc'[c] = "idle" /\ cookie'[c] = t
      BY <2>1, <2>5 DEF Mine, CInv
    <2>7. CookieInv(c)'
      BY <2>1, <2>3, <2>4, <2>6 DEF CookieInv, Obtained
    <2>8. ClientInv(c)'
      BY <2>6, <2>7 DEF ClientInv, Asking, Reading, Changing
    <2> QED
      BY <2>6, <2>8, MineIsEnough
  <1>8. CASE Logout(c)
    <2>1. cookie' = [cookie EXCEPT ![c] = NoCookie] /\ UNCHANGED <<clock, users, pc, mem>>
      BY <1>8 DEF Logout
    <2>2. RowsInv' /\ Advances
      BY <2>1, RowsStay DEF CInv
    <2>3. Mine(c) /\ cookie'[c] = NoCookie
      BY <2>1, <2>2 DEF Mine, CInv
    <2>4. ClientInv(c)'
      BY <2>1, <2>3 DEF CInv, ClientInv, CookieInv, Asking, Reading, Changing, Obtained
    <2> QED
      BY <2>3, <2>4, MineIsEnough
  <1>9. CASE LoginRecord(c)
    BY <1>2, <1>9 DEF LoginRecord
  <1> QED
    BY <1>1, <1>4, <1>5, <1>6, <1>7, <1>8, <1>9

LEMMA ChangeStepsKeep ==
  ASSUME CInv, NEW c \in Clients,
         ChangeVerify(c) \/ ChangeStamp(c) \/ ChangeCommit(c) \/ ChangeMint(c)
  PROVE  CInv'
  <1>1. CASE ChangeVerify(c)
    <2>1. PICK new \in Passwords :
            mem' = [mem EXCEPT ![c] = [user |-> cookie[c].user, password |-> new]]
      BY <1>1 DEF ChangeVerify, Keep
    <2>2. pc' = [pc EXCEPT ![c] = "changing"] /\ UNCHANGED <<clock, users, cookie>>
      BY <1>1 DEF ChangeVerify, Goto
    <2>3. /\ Mine(c) /\ CookieInv(c)' /\ pc'[c] = "changing"
          /\ mem'[c] = [user |-> cookie[c].user, password |-> new]
      BY <2>1, <2>2, GoesOn
    <2>4. cookie[c].user \in DOMAIN users
      BY <1>1 DEF ChangeVerify, Accepted
    <2>5. ClientInv(c)'
      BY <2>2, <2>3, <2>4 DEF ClientInv, Asking, Reading, Changing
    <2> QED
      BY <2>3, <2>5, MineIsEnough
  <1>2. CASE ChangeStamp(c)
    <2>1. /\ pc[c] = "changing" /\ pc' = [pc EXCEPT ![c] = "stamped"] /\ UNCHANGED <<clock, users, cookie>>
          /\ mem' = [mem EXCEPT ![c] = [user |-> mem[c].user, password |-> mem[c].password,
                                        stamp |-> clock]]
      BY <1>2 DEF ChangeStamp, Goto, Keep
    <2>2. /\ Mine(c) /\ CookieInv(c)' /\ pc'[c] = "stamped" /\ ClientInv(c) /\ clock \in Nat
          /\ mem'[c] = [user |-> mem[c].user, password |-> mem[c].password, stamp |-> clock]
      BY <2>1, GoesOn
    <2>3. mem[c].user \in DOMAIN users /\ mem[c].password \in Passwords
      BY <2>1, <2>2 DEF ClientInv, Changing
    <2>4. ClientInv(c)'
      BY <2>1, <2>2, <2>3 DEF ClientInv, Asking, Reading, Changing
    <2> QED
      BY <2>2, <2>4, MineIsEnough
  <1>3. CASE ChangeCommit(c)
    <2> DEFINE u == mem[c].user
               p == mem[c].password
               stamp == mem[c].stamp
    <2>1. /\ pc[c] = "stamped" /\ pc' = [pc EXCEPT ![c] = "changed"] /\ UNCHANGED <<clock, cookie, mem>>
          /\ users' = [users EXCEPT ![u] = [@ EXCEPT !.password = p, !.changed = stamp,
                                              !.committed = clock]]
      BY <1>3 DEF ChangeCommit, Goto
    <2>2. /\ RowsInv /\ u \in DOMAIN users /\ p \in Passwords /\ stamp \in Nat /\ stamp <= clock
          /\ clock \in Nat
      BY <2>1 DEF CInv, ClientInv, Changing, RowsInv
    <2> HIDE DEF u, p, stamp
    <2>3. RowsInv' /\ Advances /\ users'[u].password = p
      BY <2>1, <2>2, RowWritten
    <2>4. Mine(c) /\ pc'[c] = "changed"
      BY <2>1, <2>3 DEF CInv, Mine
    <2>5. CookieInv(c)'
      BY <2>1, <2>2, <2>3, ObtainedStays DEF CInv, ClientInv, CookieInv, Obtained
    <2>6. u \in DOMAIN users' /\ clock' = clock
      BY <2>1, <2>2, <2>3 DEF Advances
    <2>7. Changing(c)'
      BY <2>1, <2>2, <2>3, <2>4, <2>6 DEF Changing, Obtained, u, p, stamp
    <2>8. ClientInv(c)'
      BY <2>4, <2>5, <2>7 DEF ClientInv, Asking, Reading
    <2> QED
      BY <2>4, <2>8, MineIsEnough
  <1>4. CASE ChangeMint(c)
    <2> DEFINE t == Token(mem[c].user, mem[c].password, mem[c].stamp)
    <2>1. /\ pc[c] = "changed" /\ pc' = [pc EXCEPT ![c] = "idle"] /\ mem' = [mem EXCEPT ![c] = Nobody]
          /\ cookie' = [cookie EXCEPT ![c] = t] /\ UNCHANGED <<clock, users>>
      BY <1>4 DEF ChangeMint, Answer, Goto, Keep
    <2>2. ClientInv(c) /\ RowsInv /\ clock \in Nat /\ users \in Seq(Rows)
      BY DEF CInv, RowsInv
    <2>3. Obtained(mem[c].user, mem[c].password, mem[c].stamp)
      BY <2>1, <2>2 DEF ClientInv, Changing
    <2>4. /\ t \in Tokens /\ t.user = mem[c].user /\ t.password = mem[c].password
          /\ t.seen = mem[c].stamp
      BY <2>2, <2>3, LimitsAssumption DEF Obtained, Tokens, Token
    <2>5. RowsInv' /\ Advances
      BY <2>1, <2>2, RowsStay
    <2> HIDE DEF t
    <2>6. Mine(c) /\ pc'[c] = "idle" /\ cookie'[c] = t
      BY <2>1, <2>5 DEF Mine, CInv
    <2>7. CookieInv(c)'
      BY <2>1, <2>3, <2>4, <2>6 DEF CookieInv, Obtained
    <2>8. ClientInv(c)'
      BY <2>6, <2>7 DEF ClientInv, Asking, Reading, Changing
    <2> QED
      BY <2>6, <2>8, MineIsEnough
  <1> QED
    BY <1>1, <1>2, <1>3, <1>4

LEMMA CInvIsKept == ASSUME CInv, [Next]_vars PROVE CInv'
  <1>1. ASSUME RowsInv', Advances, UNCHANGED <<pc, mem, cookie>> PROVE CInv'
    <2>1. \A c \in Clients : ClientInv(c)'
      BY <1>1, OthersKeep
    <2> QED
      BY <1>1, <2>1 DEF CInv
  <1>2. CASE ResetPassword
    <2>1. PICK k \in DOMAIN users, p \in Passwords :
            users' = [users EXCEPT ![k] = [@ EXCEPT !.password = p, !.changed = clock,
                                             !.committed = clock]]
      BY <1>2 DEF ResetPassword
    <2>2. RowsInv /\ clock \in Nat /\ clock <= clock /\ UNCHANGED <<clock, pc, mem, cookie>>
      BY <1>2 DEF ResetPassword, CInv, RowsInv
    <2>3. RowsInv' /\ Advances
      BY <2>1, <2>2, RowWritten
    <2> QED
      BY <1>1, <2>2, <2>3
  <1>3. CASE Pass \/ UNCHANGED vars
    BY <1>1, <1>3, RowsStay DEF Pass, vars, CInv
  <1> QED
    BY <1>2, <1>3, SetupStepsKeep, LoginStepsKeep, ChangeStepsKeep DEF Next

\* The token of a change is accepted at once: it is not older than any change so far.
LEMMA ChangerIsAccepted ==
  ASSUME CInv, [Next]_vars, NEW c \in Clients, pc[c] = "changed", pc'[c] = "idle"
  PROVE  Accepted(cookie[c])'
  <1>1. ChangeMint(c)
    <2>1. PICK d \in Clients :
            \/ SetupCount(d) \/ SetupInsert(d)
            \/ LoginWalk(d) \/ LoginAsk(d) \/ LoginRead(d) \/ LoginVerify(d) \/ LoginRecord(d)
            \/ LoginMint(d) \/ Logout(d)
            \/ ChangeVerify(d) \/ ChangeStamp(d) \/ ChangeCommit(d) \/ ChangeMint(d)
      BY DEF Next, ResetPassword, Pass, vars
    <2>2. \/ pc' = pc
          \/ ChangeMint(d)
          \/ pc[d] # "changed" /\ \E p : pc' = [pc EXCEPT ![d] = p]
          \/ \E p : p # "idle" /\ pc' = [pc EXCEPT ![d] = p]
      BY <2>1 DEF SetupCount, SetupAnyway, SetupInsert, LoginWalk, LoginAsk, LoginRead, LoginVerify,
         LoginRecord, LoginMint, Logout, ChangeVerify, ChangeStamp, ChangeCommit, Goto, Answer
    <2>3. CASE ChangeMint(d)
      BY <2>3 DEF ChangeMint, Answer, Goto, CInv
    <2> QED
      BY <2>2, <2>3 DEF CInv
  <1> DEFINE t == Token(mem[c].user, mem[c].password, mem[c].stamp)
  <1>2. cookie'[c] = t /\ clock' = clock /\ users' = users
    BY <1>1 DEF ChangeMint, CInv
  <1>3. /\ Obtained(mem[c].user, mem[c].password, mem[c].stamp) /\ clock \in Nat
        /\ mem[c].user \in DOMAIN users /\ users \in Seq(Rows)
        /\ users[mem[c].user].changed <= clock
    BY DEF CInv, ClientInv, Changing, RowsInv, Obtained
  <1>4. t \in Tokens /\ t.user = mem[c].user /\ clock < t.exp /\ t.iat = clock
    BY <1>3, LimitsAssumption DEF Obtained, Tokens, Token
  <1> HIDE DEF t
  <1>5. t # NoCookie
    BY <1>4, CookieAssumption
  <1> QED
    BY <1>2, <1>3, <1>4, <1>5 DEF Accepted

\* routes/auth.py, deps.py: for any number of clients and any limits, a session or a login that
\* outlives a change of the password it was obtained with is one that raced with the change, and
\* whoever changed the password is signed in with the session the change returns.
THEOREM ChangesDecide == Spec => ChangeDecides
  <1>1. Init => CInv
    BY DEF Init, CInv, RowsInv, ClientInv, CookieInv, Asking, Reading, Changing
  <1>2. CInv /\ [Next]_vars => CInv'
    BY CInvIsKept
  <1>3. CInv => OnlyRacesOutliveAChange
    BY DEF CInv, ClientInv, CookieInv, Obtained, OnlyRacesOutliveAChange, Accepted
  <1>4. CInv /\ [Next]_vars =>
          [\A c \in Clients :
             pc[c] = "changed" /\ pc'[c] = "idle" /\ users[mem[c].user].changed = mem[c].stamp =>
               Accepted(cookie[c])']_vars
    BY ChangerIsAccepted
  <1> QED
    BY <1>1, <1>2, <1>3, <1>4, PTL DEF Spec, ChangeDecides, ChangerStaysIn

-----------------------------------------------------------------------------
(* The throttle.                                                           *)

AllKeys == ({"client"} \X Clients) \union ({"user"} \X Names)
Entries == [key : AllKeys, count : Nat, last : Nat, first : Nat]

\* The attempts that have been let through and not been told of yet, for a key.
Flies(c, place, name, key) ==
  \/ place \in {"asked", "read"} /\ key \in Keys(c, name)
  \/ place = "recording" /\ key = <<"user", name>>
InFlight(p, m, key) == {c \in Clients : Flies(c, p[c], m[c].name, key)}

\* The most failures a key may have counted, and that many with n attempts still in flight.
N == Cardinality(Clients)
Allowed(f) == FreeAttempts - 1 + N * (1 + f.last - f.first)
Slow(f, n) ==
  /\ f.first <= f.last /\ f.last <= clock /\ f.count <= Allowed(f)
  /\ f.count < FreeAttempts \/ f.last < clock \/ f.count + n <= Allowed(f)

\* The table's order, and one entry for each key.
Sorted(table) ==
  /\ table \in Seq(Entries) /\ Len(table) <= MaxKeys
  /\ \A k \in DOMAIN table : table[k].last <= clock
  /\ \A i, j \in DOMAIN table : i < j => table[i].last <= table[j].last /\ table[i].key # table[j].key

\* The places where a request holds the name it is about.
Asked == {"counted", "walking", "asked", "read", "recording"}

TInv ==
  /\ clock \in Nat /\ DOMAIN pc = Clients /\ DOMAIN mem = Clients
  /\ \A c \in Clients : pc[c] \in Asked => mem[c].name \in Names
  /\ Sorted(failures)
  /\ \A k \in DOMAIN failures : Slow(failures[k], Cardinality(InFlight(pc, mem, failures[k].key)))

\* The wait doubles with each attempt and is never less than a second (throttle.py:70).
LEMMA DoubledIsAnInterval == ASSUME NEW n \in Nat PROVE Doubled(n) \in Nat /\ Doubled(n) >= 1
  <1> DEFINE Step(f, i) == IF i = 0 THEN 1 ELSE 2 * f[i - 1]
             d == CHOOSE f : f = [i \in 0..n |-> Step(f, i)]
             step == [i \in 1..n |-> [x \in Nat |-> 2 * x]]
  <1>1. Doubled(n) = d[n]
    BY DEF Doubled
  <1>2. IsStep(n, Nat, step) /\ 1 \in Nat
    BY DEF IsStep
  <1>3. PICK g : IsRecursive(n, Nat, 1, step, g)
    <2> HIDE DEF step
    <2> QED
      BY <1>2, Recursion
  <1>4. /\ g \in [0..n -> Nat] /\ g[0] = 1
        /\ \A i \in 1..n : g[i] = 2 * g[i - 1]
    <2>1. \A i \in 1..n : g[i - 1] \in Nat
      BY <1>3 DEF IsRecursive
    <2> QED
      BY <1>3, <2>1 DEF IsRecursive
  <1>5. g = [i \in 0..n |-> Step(g, i)]
    <2>1. \A i \in 0..n : g[i] = Step(g, i)
      BY <1>4
    <2> QED
      BY <1>4, <2>1
  <1>6. d = [i \in 0..n |-> Step(d, i)]
    BY <1>5
  <1>7. \A i \in 0..n : d[i] = Step(d, i)
    <2> HIDE DEF d, Step
    <2> QED
      BY <1>6
  <1>8. d[0] = 1 /\ \A i \in 1..n : d[i] = 2 * d[i - 1]
    <2> HIDE DEF d
    <2> QED
      BY <1>7
  <1> HIDE DEF d
  <1> DEFINE Ns == {i \in 0..n : d[i] \in Nat /\ d[i] >= 1}
  <1>9. 0 \in Ns /\ \A i \in 1..n : i - 1 \in Ns => i \in Ns
    BY <1>8
  <1>10. n \in Ns
    <2> HIDE DEF Ns
    <2> QED
      BY <1>9, Upto
  <1> QED
    BY <1>1, <1>10

\* A key that is let through is below the free attempts, or failed before this second.
LEMMA LetThrough ==
  ASSUME NEW f \in Entries, clock \in Nat, f.last <= clock, ~(Delay(f) > 0)
  PROVE  f.count < FreeAttempts \/ f.last < clock
  <1> DEFINE D == Doubled(f.count - FreeAttempts)
  <1>1. SUFFICES ASSUME f.count >= FreeAttempts, f.last = clock PROVE Delay(f) > 0
    BY LimitsAssumption DEF Entries
  <1>2. D \in Nat /\ D >= 1
    <2>1. f.count - FreeAttempts \in Nat
      BY <1>1, LimitsAssumption DEF Entries
    <2> QED
      BY <2>1, DoubledIsAnInterval
  <1>3. MaxDelay \in Nat /\ MaxDelay >= 1
    BY LimitsAssumption
  <1> HIDE DEF D
  <1>4. Min({MaxDelay, D}) >= 1
    BY <1>2, <1>3 DEF Min
  <1>5. Delay(f) = Min({MaxDelay, D}) - (clock - f.last)
    BY <1>1, LimitsAssumption DEF Delay, Wait, D, Entries
  <1>6. Min({MaxDelay, D}) \in Int
    BY <1>2, <1>3 DEF Min
  <1> QED
    BY <1>1, <1>4, <1>5, <1>6

-----------------------------------------------------------------------------
(* The limit on the failures of one key.                                   *)

LEMMA NIsANumber == N \in Nat
  BY LimitsAssumption, FS_CardinalityType DEF N

\* What one more second, or more seconds, allow.
LEMMA AllowedGrows ==
  ASSUME NEW a \in Nat, NEW b \in Nat
  PROVE  /\ N * (1 + a) \in Nat
         /\ a <= b => N * (1 + a) <= N * (1 + b)
         /\ a < b => N * (1 + a) + N <= N * (1 + b)
  <1>1. N \in Nat
    BY NIsANumber
  <1> HIDE DEF N
  <1> QED
    BY <1>1

LEMMA AgainIsSlow ==
  ASSUME NEW f \in Entries, clock \in Nat, NEW n \in Nat, n + 1 <= N, Slow(f, n + 1)
  PROVE  Again(f) \in Entries /\ Slow(Again(f), n)
  <1> DEFINE a == f.last - f.first
             b == clock - f.first
  <1>1. /\ f.count \in Nat /\ f.last \in Nat /\ f.first \in Nat
        /\ FreeAttempts \in Nat /\ FreeAttempts >= 1
    BY LimitsAssumption DEF Entries
  <1>2. f.first <= f.last /\ f.last <= clock
    BY DEF Slow
  <1>3. a \in Nat /\ b \in Nat /\ a <= b /\ (f.last < clock => a < b)
    BY <1>1, <1>2
  <1>4. N \in Nat /\ 0 <= b
    BY <1>3, NIsANumber
  <1>5. /\ Again(f) \in Entries /\ Again(f).count = f.count + 1 /\ Again(f).last = clock
        /\ Again(f).first = f.first
    <2> DEFINE count == f.count + 1
    <2>1. count \in Nat /\ Again(f) = [f EXCEPT !.count = count, !.last = clock]
      BY <1>1 DEF Again
    <2> HIDE DEF count
    <2>2. /\ Again(f) \in Entries /\ Again(f).count = count /\ Again(f).last = clock
          /\ Again(f).first = f.first
      BY <2>1 DEF Entries
    <2> QED
      BY <2>2 DEF count
  <1>6. Allowed(f) = FreeAttempts - 1 + N * (1 + a) /\ Allowed(Again(f)) = FreeAttempts - 1 + N * (1 + b)
    BY <1>1, <1>5 DEF Allowed
  <1> HIDE DEF a, b, N
  <1>7. /\ N * (1 + a) \in Nat /\ N * (1 + b) \in Nat
        /\ N * (1 + a) <= N * (1 + b) /\ (f.last < clock => N * (1 + a) + N <= N * (1 + b))
    BY <1>3, AllowedGrows
  <1>8. N <= N * (1 + b)
    BY <1>3, <1>4
  <1>9. f.count + 1 + n <= Allowed(Again(f))
    <2>1. CASE f.count < FreeAttempts
      BY <1>1, <1>4, <1>6, <1>7, <1>8, <2>1
    <2>2. CASE f.last < clock
      <3>1. f.count <= FreeAttempts - 1 + N * (1 + a)
        BY <1>6 DEF Slow
      <3> QED
        BY <1>1, <1>4, <1>6, <1>7, <2>2, <3>1
    <2>3. CASE f.count + (n + 1) <= Allowed(f)
      BY <1>1, <1>4, <1>6, <1>7, <2>3
    <2> QED
      BY <2>1, <2>2, <2>3 DEF Slow
  <1>10. Allowed(Again(f)) \in Int
    BY <1>1, <1>6, <1>7
  <1> QED
    BY <1>1, <1>2, <1>5, <1>9, <1>10 DEF Slow

LEMMA FirstIsSlow ==
  ASSUME NEW key \in AllKeys, clock \in Nat, NEW n \in Nat, n + 1 <= N
  PROVE  First(key) \in Entries /\ Slow(First(key), n)
  <1>1. FreeAttempts \in Nat /\ FreeAttempts >= 1 /\ N \in Nat
    BY LimitsAssumption, NIsANumber
  <1>2. /\ First(key) \in Entries /\ First(key).count = 1 /\ First(key).last = clock
        /\ First(key).first = clock
    BY DEF First, Entries
  <1> HIDE DEF N
  <1>3. Allowed(First(key)) = FreeAttempts - 1 + N
    BY <1>1, <1>2 DEF Allowed
  <1> QED
    BY <1>1, <1>2, <1>3 DEF Slow

\* Fewer attempts in flight only make it slower.
LEMMA FewerInFlight ==
  ASSUME NEW f \in Entries, NEW n \in Nat, NEW m \in Nat, m <= n, Slow(f, n) PROVE Slow(f, m)
  <1>1. f.count \in Nat /\ Allowed(f) \in Int
    <2>1. FreeAttempts \in Nat /\ N \in Nat /\ f.last - f.first \in Nat
      BY LimitsAssumption, NIsANumber DEF Entries, Slow
    <2>2. N * (1 + (f.last - f.first)) \in Nat
      BY <2>1, AllowedGrows
    <2>3. 1 + f.last - f.first = 1 + (f.last - f.first)
      BY DEF Entries
    <2> QED
      BY <2>1, <2>2, <2>3 DEF Allowed, Entries
  <1> QED
    BY <1>1 DEF Slow

-----------------------------------------------------------------------------
(* The table's order.                                                      *)

\* Forgetting some keys leaves the others in their order.
LEMMA KeepingIsSorted ==
  ASSUME NEW table, Sorted(table), NEW T \in SUBSET DOMAIN table
  PROVE  /\ Sorted(At(table, T))
         /\ \A j \in DOMAIN At(table, T) : \E i \in T : At(table, T)[j] = table[i]
  <1> DEFINE r == At(table, T)
  <1>1. table \in Seq(Entries) /\ Len(table) \in Nat /\ DOMAIN table = 1..Len(table)
    BY DEF Sorted
  <1>2. r \in Seq(Entries) /\ \E order : Selects(table, T, Len(table), r, order)
    BY <1>1, AtSelects
  <1>3. PICK order : Selects(table, T, Len(table), r, order)
    BY <1>2
  <1>4. Len(r) <= Len(table)
    BY <1>1, AtLength
  <1> HIDE DEF r
  <1>5. /\ DOMAIN r = 1..Len(r)
        /\ \A j \in 1..Len(r) : order[j] \in T /\ order[j] \in DOMAIN table /\ r[j] = table[order[j]]
        /\ \A i, j \in 1..Len(r) : i < j => order[i] < order[j]
    BY <1>1, <1>2, <1>3 DEF Selects
  <1>6. Len(r) <= MaxKeys
    BY <1>1, <1>2, <1>4, LimitsAssumption DEF Sorted
  <1>7. Sorted(r)
    BY <1>2, <1>5, <1>6 DEF Sorted
  <1> QED
    BY <1>5, <1>7 DEF r

\* Making room drops the head.
LEMMA RoomIsSorted ==
  ASSUME NEW table, Sorted(table)
  PROVE  /\ Sorted(Room(table)) /\ Len(Room(table)) < MaxKeys
         /\ \A j \in DOMAIN Room(table) : \E i \in DOMAIN table : Room(table)[j] = table[i]
  <1>1. table \in Seq(Entries) /\ Len(table) \in Nat /\ MaxKeys \in Nat /\ MaxKeys >= 1 /\ Len(table) <= MaxKeys
    BY LimitsAssumption DEF Sorted
  <1>2. CASE Len(table) < MaxKeys
    BY <1>1, <1>2 DEF Room
  <1>3. CASE Len(table) >= MaxKeys
    <2> DEFINE r == Tail(table)
    <2>1. /\ r \in Seq(Entries) /\ Len(r) = Len(table) - 1
          /\ \A j \in 1..Len(r) : r[j] = table[j + 1] /\ j + 1 \in DOMAIN table
      BY <1>1, <1>3
    <2>2. Room(table) = r
      BY <1>3 DEF Room
    <2> HIDE DEF r
    <2>3. DOMAIN r = 1..Len(r) /\ Len(r) < MaxKeys /\ Len(r) <= MaxKeys
      BY <1>1, <2>1
    <2>4. \A k \in DOMAIN r : r[k].last <= clock
      BY <2>1, <2>3 DEF Sorted
    <2>5. \A i, j \in DOMAIN r : i < j => r[i].last <= r[j].last /\ r[i].key # r[j].key
      <3>1. \A i, j \in DOMAIN r : i < j => i + 1 < j + 1
        BY <2>3
      <3> QED
        BY <2>1, <2>3, <3>1 DEF Sorted
    <2> QED
      BY <2>1, <2>2, <2>3, <2>4, <2>5 DEF Sorted
  <1> QED
    BY <1>1, <1>2, <1>3

LEMMA AppendingIsSorted ==
  ASSUME NEW table, Sorted(table), Len(table) < MaxKeys, NEW f \in Entries, f.last = clock,
         clock \in Nat, \A k \in DOMAIN table : table[k].key # f.key
  PROVE  Sorted(Append(table, f))
  <1> DEFINE r == Append(table, f)
  <1>1. /\ table \in Seq(Entries) /\ Len(table) \in Nat /\ MaxKeys \in Nat
        /\ DOMAIN table = 1..Len(table)
    BY LimitsAssumption DEF Sorted
  <1>2. /\ r \in Seq(Entries) /\ Len(r) = Len(table) + 1 /\ r[Len(table) + 1] = f
        /\ DOMAIN r = 1..(Len(table) + 1)
        /\ \A k \in DOMAIN table : r[k] = table[k]
    BY <1>1
  <1> HIDE DEF r
  <1>3. \A k \in DOMAIN r : k \in DOMAIN table \/ k = Len(table) + 1
    BY <1>1, <1>2
  <1>4. \A k \in DOMAIN r : r[k].last <= clock
    BY <1>2, <1>3 DEF Sorted
  <1>5. ASSUME NEW i \in DOMAIN r, NEW j \in DOMAIN r, i < j
        PROVE  r[i].last <= r[j].last /\ r[i].key # r[j].key
    <2>1. i \in DOMAIN table
      BY <1>1, <1>2, <1>5
    <2> QED
      BY <1>2, <1>3, <1>5, <2>1 DEF Sorted
  <1>6. Len(r) <= MaxKeys
    BY <1>1, <1>2
  <1>7. Sorted(r)
    BY <1>2, <1>4, <1>5, <1>6 DEF Sorted
  <1> QED
    BY <1>7 DEF r

\* A failure puts its key at the end, once more or for the first time, and leaves of the others
\* all that the cap allows (throttle.py:80-84).
LEMMA RecordKeepsOrder ==
  ASSUME NEW table, Sorted(table), NEW key \in AllKeys, clock \in Nat
  PROVE  /\ Sorted(Record(table, key))
         /\ \A j \in DOMAIN Record(table, key) : LET f == Record(table, key)[j] IN
              \/ \E i \in DOMAIN table : f = table[i] /\ f.key # key
              \/ \E i \in DOMAIN table : f = Again(table[i]) /\ table[i].key = key
              \/ f = First(key)
  <1> DEFINE mine == {k \in DOMAIN table : table[k].key = key}
             rest == At(table, DOMAIN table \ mine)
             room == Room(rest)
             new == IF mine = {} THEN First(key) ELSE Again(table[CHOOSE k \in mine : TRUE])
             r == Append(room, new)
  <1>1. Record(table, key) = r
    BY DEF Record
  <1>2. Sorted(rest) /\ \A j \in DOMAIN rest : \E i \in DOMAIN table \ mine : rest[j] = table[i]
    <2>1. DOMAIN table \ mine \in SUBSET DOMAIN table
      OBVIOUS
    <2> HIDE DEF mine
    <2> QED
      BY <2>1, KeepingIsSorted
  <1>3. Sorted(room) /\ Len(room) < MaxKeys /\ \A j \in DOMAIN room : \E i \in DOMAIN rest : room[j] = rest[i]
    <2> HIDE DEF rest
    <2> QED
      BY <1>2, RoomIsSorted
  <1>4. /\ new \in Entries /\ new.key = key /\ new.last = clock
        /\ new = First(key) \/ \E i \in mine : new = Again(table[i])
    <2>1. CASE mine = {}
      <3>1. First(key) \in Entries /\ First(key).key = key /\ First(key).last = clock
        BY DEF First, Entries
      <3> QED
        BY <2>1, <3>1
    <2>2. CASE mine # {}
      <3>1. PICK i \in mine : new = Again(table[i])
        BY <2>2
      <3>2. table[i] \in Entries /\ table[i].key = key
        BY <3>1 DEF Sorted
      <3>3. /\ Again(table[i]) \in Entries /\ Again(table[i]).key = table[i].key
            /\ Again(table[i]).last = clock
        <4> DEFINE count == table[i].count + 1
        <4>1. count \in Nat /\ Again(table[i]) = [table[i] EXCEPT !.count = count, !.last = clock]
          BY <3>2 DEF Again, Entries
        <4> HIDE DEF count
        <4> QED
          BY <3>2, <4>1 DEF Entries
      <3> QED
        BY <3>1, <3>2, <3>3
    <2> QED
      BY <2>1, <2>2
  <1>5. \A j \in DOMAIN room : \E i \in DOMAIN table : room[j] = table[i] /\ room[j].key # key
    <2> HIDE DEF rest, room
    <2> QED
      BY <1>2, <1>3
  <1> HIDE DEF mine, rest, room, new
  <1>6. Sorted(r)
    BY <1>3, <1>4, <1>5, AppendingIsSorted
  <1>7. \A j \in DOMAIN r : r[j] = new \/ \E k \in DOMAIN room : r[j] = room[k]
    <2>1. room \in Seq(Entries)
      BY <1>3 DEF Sorted
    <2> QED
      BY <1>4, <2>1
  <1>8. ASSUME NEW j \in DOMAIN r
        PROVE  \/ \E i \in DOMAIN table : r[j] = table[i] /\ r[j].key # key
               \/ \E i \in DOMAIN table : r[j] = Again(table[i]) /\ table[i].key = key
               \/ r[j] = First(key)
    <2> HIDE DEF r
    <2> QED
      BY <1>4, <1>5, <1>7 DEF mine
  <1> HIDE DEF r
  <1> QED
    BY <1>1, <1>6, <1>8

-----------------------------------------------------------------------------
(* The attempts in flight.                                                 *)

LEMMA InFlightIsFinite ==
  ASSUME NEW p, NEW m, NEW key
  PROVE  /\ IsFiniteSet(InFlight(p, m, key)) /\ Cardinality(InFlight(p, m, key)) \in Nat
         /\ Cardinality(InFlight(p, m, key)) <= N
  <1>1. InFlight(p, m, key) \subseteq Clients
    BY DEF InFlight
  <1> QED
    BY <1>1, LimitsAssumption, FS_Subset, FS_CardinalityType DEF N

\* How many are in flight when none is let through, and when one is told of.
LEMMA OneOut ==
  ASSUME NEW key, NEW S, NEW T, S = InFlight(pc, mem, key), T = InFlight(pc', mem', key)
  PROVE  /\ T \subseteq S => Cardinality(T) <= Cardinality(S)
         /\ \A c : c \in S /\ T = S \ {c} => Cardinality(S) = Cardinality(T) + 1 /\ Cardinality(T) + 1 <= N
  <1>1. IsFiniteSet(S) /\ IsFiniteSet(T) /\ Cardinality(S) <= N /\ Cardinality(T) \in Nat
    BY InFlightIsFinite
  <1>2. T \subseteq S => Cardinality(T) <= Cardinality(S)
    BY <1>1, FS_Subset
  <1>3. ASSUME NEW c, c \in S, T = S \ {c} PROVE Cardinality(S) = Cardinality(T) + 1
    <2>1. Cardinality(T) = Cardinality(S) - 1 /\ Cardinality(S) \in Nat
      BY <1>1, <1>3, FS_RemoveElement, FS_CardinalityType
    <2> QED
      BY <1>1, <2>1
  <1> QED
    BY <1>1, <1>2, <1>3

\* The part of the invariant that is about the requests.
Named ==
  /\ DOMAIN pc = Clients /\ DOMAIN mem = Clients
  /\ \A c \in Clients : pc[c] \in Asked => mem[c].name \in Names

LEMMA TableIsFine ==
  ASSUME TInv, Named', clock' = clock, Sorted(failures'),
         \A j \in DOMAIN failures' :
           Slow(failures'[j], Cardinality(InFlight(pc', mem', failures'[j].key)))
  PROVE  TInv'
  <1>1. Sorted(failures)'
    BY DEF Sorted
  <1>2. (\A k \in DOMAIN failures :
           Slow(failures[k], Cardinality(InFlight(pc, mem, failures[k].key))))'
    BY DEF Slow, Allowed
  <1> QED
    BY <1>1, <1>2 DEF TInv, Named

\* The table stays as it is, or loses keys, while nobody is let through.
LEMMA NobodyLetThrough ==
  ASSUME TInv, Named', clock' = clock, NEW T \in SUBSET DOMAIN failures,
         failures' = At(failures, T) \/ failures' = failures,
         \A key : InFlight(pc', mem', key) \subseteq InFlight(pc, mem, key)
  PROVE  TInv'
  <1>1. /\ Sorted(failures')
        /\ \A j \in DOMAIN failures' : \E i \in DOMAIN failures : failures'[j] = failures[i]
    BY KeepingIsSorted DEF TInv
  <1>2. ASSUME NEW j \in DOMAIN failures'
        PROVE  Slow(failures'[j], Cardinality(InFlight(pc', mem', failures'[j].key)))
    <2>1. PICK i \in DOMAIN failures : failures'[j] = failures[i]
      BY <1>1
    <2>2. failures[i] \in Entries /\ Slow(failures[i], Cardinality(InFlight(pc, mem, failures[i].key)))
      BY DEF TInv, Sorted
    <2> DEFINE S == InFlight(pc, mem, failures[i].key)
               R == InFlight(pc', mem', failures[i].key)
    <2>3. Cardinality(S) \in Nat /\ Cardinality(R) \in Nat
      BY InFlightIsFinite
    <2>4. Cardinality(R) <= Cardinality(S)
      BY OneOut
    <2>5. Slow(failures[i], Cardinality(R))
      <3> HIDE DEF S, R
      <3>1. Slow(failures[i], Cardinality(S))
        BY <2>2 DEF S
      <3> QED
        BY <2>2, <2>3, <2>4, <3>1, FewerInFlight
    <2> QED
      BY <2>1, <2>5
  <1> QED
    BY <1>1, <1>2, TableIsFine

\* A request that goes on without being let through by the throttle.
LEMMA QuietStep ==
  ASSUME TInv, clock' = clock, NEW c \in Clients, NEW place, NEW m, NEW T \in SUBSET DOMAIN failures,
         failures' = At(failures, T) \/ failures' = failures,
         pc' = [pc EXCEPT ![c] = place] \/ (pc' = pc /\ place = pc[c]),
         mem' = [mem EXCEPT ![c] = m] \/ (mem' = mem /\ m = mem[c]),
         place \in Asked => m.name \in Names, place # "recording",
         place \in {"asked", "read"} => pc[c] \in {"asked", "read"} /\ m.name = mem[c].name
  PROVE  TInv'
  <1>1. /\ DOMAIN pc' = Clients /\ DOMAIN mem' = Clients /\ pc'[c] = place /\ mem'[c] = m
        /\ \A d \in Clients \ {c} : pc'[d] = pc[d] /\ mem'[d] = mem[d]
    BY DEF TInv
  <1>2. Named'
    BY <1>1 DEF TInv, Named
  <1>3. \A key : InFlight(pc', mem', key) \subseteq InFlight(pc, mem, key)
    BY <1>1 DEF InFlight, Flies
  <1> QED
    BY <1>2, <1>3, NobodyLetThrough

LEMMA SetupIsQuiet == ASSUME TInv, NEW c \in Clients, SetupCount(c) \/ SetupInsert(c) PROVE TInv'
  <1>1. {} \in SUBSET DOMAIN failures
    OBVIOUS
  <1>2. CASE SetupCount(c)
    <2>1. PICK n \in Names, p \in Passwords : mem' = [mem EXCEPT ![c] = [name |-> n, password |-> p]]
      BY <1>2 DEF SetupCount, SetupAnyway, Keep
    <2>2. pc' = [pc EXCEPT ![c] = "counted"] /\ UNCHANGED <<clock, failures>>
      BY <1>2 DEF SetupCount, SetupAnyway, Goto
    <2> QED
      BY <1>1, <2>1, <2>2, QuietStep DEF Asked
  <1>3. CASE SetupInsert(c)
    BY <1>1, <1>3, QuietStep DEF SetupInsert, Answer, Goto, Keep, Asked
  <1> QED
    BY <1>2, <1>3

LEMMA ChangeIsQuiet ==
  ASSUME TInv, NEW c \in Clients,
         \/ LoginWalk(c) \/ LoginRead(c) \/ LoginMint(c) \/ Logout(c)
         \/ ChangeVerify(c) \/ ChangeStamp(c) \/ ChangeCommit(c) \/ ChangeMint(c)
  PROVE  TInv'
  <1>1. {} \in SUBSET DOMAIN failures
    OBVIOUS
  <1>2. CASE LoginWalk(c)
    <2>1. PICK n \in Names, p \in Passwords :
            mem' = [mem EXCEPT ![c] = [name |-> n, password |-> p, size |-> Len(failures)]]
      BY <1>2 DEF LoginWalk, Keep
    <2>2. pc' = [pc EXCEPT ![c] = "walking"] /\ UNCHANGED <<clock, failures>>
      BY <1>2 DEF LoginWalk, Goto
    <2> QED
      BY <1>1, <2>1, <2>2, QuietStep DEF Asked
  <1>3. CASE LoginRead(c)
    <2>1. PICK m : mem' = [mem EXCEPT ![c] = m] /\ m.name = mem[c].name
      <3> DEFINE ids == {k \in DOMAIN users : users[k].name = mem[c].name}
                 id == IF ids = {} THEN 0 ELSE CHOOSE k \in ids : TRUE
                 right == \E k \in ids : users[k].password = mem[c].password
                 m == [name |-> mem[c].name, password |-> mem[c].password, user |-> id,
                       right |-> right, seen |-> clock]
      <3>1. mem' = [mem EXCEPT ![c] = m]
        BY <1>3 DEF LoginRead, Keep
      <3>2. m.name = mem[c].name
        OBVIOUS
      <3> HIDE DEF m
      <3> QED
        BY <3>1, <3>2
    <2>2. pc[c] = "asked" /\ pc' = [pc EXCEPT ![c] = "read"] /\ UNCHANGED <<clock, failures>>
      BY <1>3 DEF LoginRead, Goto
    <2>3. mem[c].name \in Names
      BY <2>2 DEF TInv, Asked
    <2> QED
      BY <1>1, <2>1, <2>2, <2>3, QuietStep DEF Asked
  <1>4. CASE LoginMint(c) \/ ChangeMint(c)
    BY <1>1, <1>4, QuietStep DEF LoginMint, ChangeMint, Answer, Goto, Keep, Asked
  <1>5. CASE Logout(c)
    <2>1. UNCHANGED <<clock, failures, pc, mem>> /\ pc[c] = "idle"
      BY <1>5 DEF Logout
    <2> QED
      BY <1>1, <2>1, QuietStep DEF Asked
  <1>6. CASE ChangeVerify(c) \/ ChangeStamp(c)
    <2>1. /\ UNCHANGED <<clock, failures>> /\ \E m : mem' = [mem EXCEPT ![c] = m]
          /\ \E place \in {"changing", "stamped"} : pc' = [pc EXCEPT ![c] = place]
      BY <1>6 DEF ChangeVerify, ChangeStamp, Goto, Keep
    <2> QED
      BY <1>1, <2>1, QuietStep DEF Asked
  <1>7. CASE ChangeCommit(c)
    <2>1. UNCHANGED <<clock, failures, mem>> /\ pc' = [pc EXCEPT ![c] = "changed"]
      BY <1>7 DEF ChangeCommit, Goto
    <2> QED
      BY <1>1, <2>1, QuietStep DEF Asked
  <1> QED
    BY <1>2, <1>3, <1>4, <1>5, <1>6, <1>7

\* An attempt that is let through: each of its keys is below the free attempts or failed before
\* this second, and so has room for as many more as there are clients.
LEMMA AskKeeps == ASSUME TInv, NEW c \in Clients, LoginAsk(c) PROVE TInv'
  <1> DEFINE T == {k \in DOMAIN failures : ~Stale(failures[k])}
             fresh == At(failures, T)
             keys == Keys(c, mem[c].name)
  <1>1. pc[c] = "walking" /\ clock' = clock /\ T \in SUBSET DOMAIN failures /\ clock \in Nat
    BY DEF LoginAsk, TInv
  <1>2. \/ Answer(c) /\ (failures' = failures \/ failures' = fresh)
        \/ failures' = fresh /\ ~MustWait(fresh, keys) /\ Goto(c, "asked") /\ UNCHANGED mem
    BY DEF LoginAsk
  <1>3. Sorted(fresh) /\ \A j \in DOMAIN fresh : \E i \in DOMAIN failures : fresh[j] = failures[i]
    <2> HIDE DEF T
    <2> QED
      BY <1>1, KeepingIsSorted DEF TInv
  <1> HIDE DEF T, fresh, keys
  <1>4. CASE Answer(c) /\ (failures' = failures \/ failures' = fresh)
    BY <1>1, <1>4, QuietStep DEF Answer, Goto, Keep, fresh, Asked
  <1>5. CASE failures' = fresh /\ ~MustWait(fresh, keys) /\ Goto(c, "asked") /\ UNCHANGED mem
    <2>1. pc' = [pc EXCEPT ![c] = "asked"] /\ mem' = mem
      BY <1>5 DEF Goto
    <2>2. Named'
      BY <1>1, <2>1 DEF TInv, Named, Asked
    <2>3. \A key : key \notin keys => InFlight(pc', mem', key) = InFlight(pc, mem, key)
      BY <1>1, <2>1 DEF InFlight, Flies, TInv, keys
    <2>4. ASSUME NEW j \in DOMAIN fresh
          PROVE  Slow(fresh[j], Cardinality(InFlight(pc', mem', fresh[j].key)))
      <3>1. PICK i \in DOMAIN failures : fresh[j] = failures[i]
        BY <1>3
      <3>2. /\ fresh[j] \in Entries /\ fresh[j].last <= clock
            /\ Slow(fresh[j], Cardinality(InFlight(pc, mem, fresh[j].key)))
        BY <3>1 DEF TInv, Sorted
      <3>3. CASE fresh[j].key \in keys
        <4>1. ~(Delay(fresh[j]) > 0)
          BY <1>5, <3>3 DEF MustWait
        <4>2. fresh[j].count < FreeAttempts \/ fresh[j].last < clock
          BY <1>1, <3>2, <4>1, LetThrough
        <4> QED
          BY <3>2, <4>2 DEF Slow
      <3>4. CASE fresh[j].key \notin keys
        BY <2>3, <3>2, <3>4
      <3> QED
        BY <3>3, <3>4
    <2> QED
      BY <1>1, <1>3, <1>5, <2>2, <2>4, TableIsFine
  <1> QED
    BY <1>2, <1>4, <1>5

\* A failure of an attempt c that is told of for one of its keys: c is in flight for that key no
\* longer, and counts once.
LEMMA RecordingKeeps ==
  ASSUME TInv, Named', clock' = clock, NEW key \in AllKeys, NEW c,
         failures' = Record(failures, key),
         c \in InFlight(pc, mem, key), InFlight(pc', mem', key) = InFlight(pc, mem, key) \ {c},
         \A k : k # key => InFlight(pc', mem', k) = InFlight(pc, mem, k)
  PROVE  TInv'
  <1> DEFINE Flying(k) == InFlight(pc, mem, k)
             Left(k) == InFlight(pc', mem', k)
             n == Cardinality(Left(key))
  <1>1. clock \in Nat /\ Sorted(failures)
    BY DEF TInv
  <1>2. n \in Nat /\ Cardinality(Flying(key)) = n + 1 /\ n + 1 <= N
    BY InFlightIsFinite, OneOut
  <1>3. \A i \in DOMAIN failures :
          failures[i] \in Entries /\ Slow(failures[i], Cardinality(Flying(failures[i].key)))
    BY DEF TInv, Sorted
  <1>4. \A k : k # key => Left(k) = Flying(k)
    OBVIOUS
  <1> HIDE DEF Flying, Left, n
  <1>5. /\ Sorted(failures')
        /\ \A j \in DOMAIN failures' :
             \/ \E i \in DOMAIN failures : failures'[j] = failures[i] /\ failures'[j].key # key
             \/ \E i \in DOMAIN failures : failures'[j] = Again(failures[i]) /\ failures[i].key = key
             \/ failures'[j] = First(key)
    BY <1>1, RecordKeepsOrder
  <1>6. ASSUME NEW j \in DOMAIN failures'
        PROVE  Slow(failures'[j], Cardinality(Left(failures'[j].key)))
    <2>1. CASE \E i \in DOMAIN failures : failures'[j] = failures[i] /\ failures'[j].key # key
      BY <1>3, <1>4, <2>1
    <2>2. CASE \E i \in DOMAIN failures : failures'[j] = Again(failures[i]) /\ failures[i].key = key
      <3>1. PICK i \in DOMAIN failures : failures'[j] = Again(failures[i]) /\ failures[i].key = key
        BY <2>2
      <3>2. failures[i] \in Entries /\ Slow(failures[i], n + 1)
        BY <1>2, <1>3, <3>1
      <3>3. Slow(Again(failures[i]), n)
        BY <1>1, <1>2, <3>2, AgainIsSlow
      <3>4. Again(failures[i]).key = key
        BY <3>1, <3>2 DEF Again, Entries
      <3> QED
        BY <3>1, <3>3, <3>4 DEF n
    <2>3. CASE failures'[j] = First(key)
      <3>1. Slow(First(key), n)
        BY <1>1, <1>2, FirstIsSlow
      <3>2. First(key).key = key
        BY DEF First
      <3> QED
        BY <2>3, <3>1, <3>2 DEF n
    <2> QED
      BY <1>5, <2>1, <2>2, <2>3
  <1> QED
    BY <1>5, <1>6, TableIsFine DEF Left

\* The client's key first; the attempt is in flight for the name's until that is recorded too.
LEMMA VerifyKeeps == ASSUME TInv, NEW c \in Clients, LoginVerify(c) PROVE TInv'
  <1> DEFINE T == {k \in DOMAIN failures : failures[k].key \notin Keys(c, mem[c].name)}
             client == <<"client", c>>
  <1>1. pc[c] = "read" /\ clock' = clock /\ mem' = mem /\ T \in SUBSET DOMAIN failures
    BY DEF LoginVerify
  <1>2. \/ failures' = At(failures, T) /\ Goto(c, "verified")
        \/ failures' = Record(failures, client) /\ Goto(c, "recording")
    BY DEF LoginVerify, ClearKeys
  <1> HIDE DEF T
  <1>3. CASE failures' = At(failures, T) /\ Goto(c, "verified")
    BY <1>1, <1>3, QuietStep DEF Goto, Asked
  <1>4. CASE failures' = Record(failures, client) /\ Goto(c, "recording")
    <2>1. pc' = [pc EXCEPT ![c] = "recording"] /\ DOMAIN pc = Clients /\ client \in AllKeys
      BY <1>4 DEF Goto, TInv, AllKeys
    <2>2. Named'
      BY <1>1, <2>1 DEF TInv, Named, Asked
    <2>3. /\ \A k : k # client => InFlight(pc', mem', k) = InFlight(pc, mem, k)
          /\ c \in InFlight(pc, mem, client)
          /\ InFlight(pc', mem', client) = InFlight(pc, mem, client) \ {c}
      BY <1>1, <2>1 DEF InFlight, Flies, Keys
    <2> HIDE DEF client
    <2> QED
      BY <1>1, <1>4, <2>1, <2>2, <2>3, RecordingKeeps
  <1> QED
    BY <1>2, <1>3, <1>4

LEMMA LoginRecordKeeps == ASSUME TInv, NEW c \in Clients, LoginRecord(c) PROVE TInv'
  <1> DEFINE user == <<"user", mem[c].name>>
  <1>1. /\ pc[c] = "recording" /\ clock' = clock /\ failures' = Record(failures, user)
        /\ pc' = [pc EXCEPT ![c] = "idle"] /\ mem' = [mem EXCEPT ![c] = Nobody]
    BY DEF LoginRecord, Answer, Goto, Keep
  <1>2. DOMAIN pc = Clients /\ DOMAIN mem = Clients /\ user \in AllKeys
    BY <1>1 DEF TInv, Asked, AllKeys
  <1>3. Named'
    BY <1>1 DEF TInv, Named, Asked
  <1>4. /\ \A k : k # user => InFlight(pc', mem', k) = InFlight(pc, mem, k)
        /\ c \in InFlight(pc, mem, user)
        /\ InFlight(pc', mem', user) = InFlight(pc, mem, user) \ {c}
    BY <1>1, <1>2 DEF InFlight, Flies
  <1> HIDE DEF user
  <1> QED
    BY <1>1, <1>2, <1>3, <1>4, RecordingKeeps

\* A second later every key has waited.
LEMMA PassKeeps == ASSUME TInv, Pass PROVE TInv'
  <1>1. UNCHANGED <<failures, pc, mem>> /\ clock' = clock + 1 /\ clock \in Nat
    BY DEF Pass, TInv
  <1>2. \A k \in DOMAIN failures : failures[k] \in Entries /\ failures[k].last <= clock
    BY DEF TInv, Sorted
  <1>3. \A k \in DOMAIN failures : failures[k].last < clock' /\ failures[k].last <= clock'
    BY <1>1, <1>2 DEF Entries
  <1>4. Sorted(failures)'
    BY <1>1, <1>3 DEF TInv, Sorted
  <1>5. (\A k \in DOMAIN failures :
           Slow(failures[k], Cardinality(InFlight(pc, mem, failures[k].key))))'
    BY <1>1, <1>3 DEF TInv, Slow, Allowed
  <1> QED
    BY <1>1, <1>4, <1>5 DEF TInv

LEMMA TInvIsKept == ASSUME TInv, [Next]_vars PROVE TInv'
  <1>1. CASE ResetPassword \/ UNCHANGED vars
    <2>1. UNCHANGED <<clock, failures, pc, mem>>
      BY <1>1 DEF ResetPassword, vars
    <2> QED
      BY <2>1 DEF TInv, Sorted, Slow, Allowed
  <1> QED
    BY <1>1, SetupIsQuiet, ChangeIsQuiet, AskKeeps, VerifyKeeps, LoginRecordKeeps, PassKeeps DEF Next

\* throttle.py, routes/auth.py: for any number of clients, names and limits, the table never
\* outgrows its cap and drops the key that failed longest ago, and no key counts more failures
\* than the free attempts and those in flight together, once more for each second that passed.
THEOREM TheThrottleHolds == Spec => []ThrottleHolds
  <1>1. Init => TInv
    BY LimitsAssumption DEF Init, TInv, Sorted, Asked
  <1>2. TInv => TableInOrder
    BY DEF TInv, Sorted, TableInOrder, Entries
  <1>3. TInv => GuessingIsSlow
    BY DEF TInv, Slow, Allowed, N, GuessingIsSlow
  <1>4. TInv /\ [Next]_vars => TInv'
    BY TInvIsKept
  <1> QED
    BY <1>1, <1>2, <1>3, <1>4, PTL DEF Spec, ThrottleHolds

-----------------------------------------------------------------------------
(* The limit on request bodies.                                            *)

\* What has been sent of the 413, by the place of the coroutine that sends it.
Rejecting ==
  /\ at \in {"called", "rejecting"} => wire = <<>>
  /\ at = "rejected" => wire = <<Answer413[1]>>
  /\ at \in {"reading", "returned"} => wire = Answer413

\* The declared length was enough: nothing was read, and the application was not called.
Refused ==
  /\ at # "reading" /\ ~rejected /\ ~started /\ body = 0 /\ sender = "nothing"
  /\ arrived = <<>> /\ given = <<>> /\ answered = <<>>
  /\ Rejecting

\* The limit was passed: the chunk that did is not given, the news that the client went is.
CutOff ==
  /\ at \in {"rejecting", "rejected", "reading"} /\ ~started /\ body > MaxBytes
  /\ sender = "nothing"
  /\ Rejecting
  /\ IF at = "reading"
     THEN \E k \in DOMAIN given : given[k] = Gone /\ k \in DOMAIN arrived /\ arrived[k] # Gone
     ELSE Len(arrived) = Len(given) + 1 /\ arrived[Len(arrived)] # Gone

\* The limit was not passed: all goes through, an answer one message late at most.
PassedOn ==
  /\ at \in {"called", "reading"} /\ body = received /\ body <= MaxBytes /\ given = arrived
  /\ ~started => answered = <<>>
  /\ Len(answered) = Len(wire) + IF sender = "nothing" THEN 0 ELSE 1
  /\ \A k \in 1..Len(wire) : wire[k] = <<answered[k], "app">>
  /\ sender # "nothing" => sender = answered[Len(answered)]

\* What holds of every exchange: one of the three, by the variables of __call__.
BInv ==
  /\ BodyTypeOK
  /\ \A k \in 1..Len(answered) : (answered[k] = "start") = (k = 1)
  /\ IF TooLarge THEN Refused ELSE IF rejected THEN CutOff ELSE PassedOn

\* How a list of two elements is made and read.
LEMMA ListOfTwo ==
  ASSUME NEW S, NEW a \in S, NEW b \in S
  PROVE  /\ Append(<<>>, a) = <<a>> /\ Append(<<a>>, b) = <<a, b>>
  <1>1. <<>> \in Seq(S) /\ <<a>> \in Seq(S) /\ <<a, b>> \in Seq(S)
    OBVIOUS
  <1>2. Append(<<>>, a) = <<a>>
    <2>1. \A s \in Seq(S) : s = <<>> => Len(Append(s, a)) = 1 /\ Append(s, a) \in Seq(S) /\ Append(s, a)[1] = a
      OBVIOUS
    <2>2. \A s \in Seq(S) : Len(s) = 1 /\ s[1] = a => s = <<a>>
      OBVIOUS
    <2> QED
      BY <1>1, <2>1, <2>2
  <1>6. Append(<<a>>, b) = <<a, b>>
    <2>1. \A s \in Seq(S) : s = <<a>> =>
            /\ Len(Append(s, b)) = 2 /\ Append(s, b) \in Seq(S)
            /\ Append(s, b)[1] = a /\ Append(s, b)[2] = b
      OBVIOUS
    <2>2. \A s \in Seq(S) : Len(s) = 2 /\ s[1] = a /\ s[2] = b => s = <<a, b>>
      OBVIOUS
    <2> QED
      BY <1>1, <2>1, <2>2
  <1> QED
    BY <1>2, <1>6

\* Where it begins, it is as long as it is.
LEMMA BeginsListOfTwo ==
  ASSUME NEW a, NEW b, NEW w \in {<<>>, <<a>>, <<a, b>>}, NEW k \in DOMAIN w
  PROVE  (k = 1 /\ w[k] = a) \/ (k = 2 /\ w[k] = b)
  OBVIOUS

\* The two messages of the 413, and nothing else.
LEMMA TwoMessages ==
  /\ Answer413[1] \in Messages /\ Answer413[2] \in Messages
  /\ Append(<<>>, Answer413[1]) = <<Answer413[1]>>
  /\ Append(<<Answer413[1]>>, Answer413[2]) = Answer413
  /\ \A w \in {<<>>, <<Answer413[1]>>, Answer413} :
       /\ \A k \in DOMAIN w : k <= 2 /\ w[k] = Answer413[k]
       /\ \A j, k \in DOMAIN w : (w[j][1] = "start" /\ w[k][1] = "start" => j = k) /\ w[j][2] = w[k][2]
  <1> DEFINE a == Answer413[1]
             b == Answer413[2]
  <1>1. a \in Messages /\ b \in Messages
    BY DEF Answer413, Messages
  <1>2. Answer413 = <<a, b>> /\ a[1] = "start" /\ b[1] = "part" /\ a[2] = "413" /\ b[2] = "413"
    BY DEF Answer413
  <1> HIDE DEF a, b
  <1>3. Append(<<>>, a) = <<a>> /\ Append(<<a>>, b) = <<a, b>>
    BY <1>1, ListOfTwo
  <1>4. ASSUME NEW w \in {<<>>, <<a>>, <<a, b>>}
        PROVE  /\ \A k \in DOMAIN w : k <= 2 /\ w[k] = <<a, b>>[k]
               /\ \A j, k \in DOMAIN w :
                    (w[j][1] = "start" /\ w[k][1] = "start" => j = k) /\ w[j][2] = w[k][2]
    <2>1. <<a, b>>[1] = a /\ <<a, b>>[2] = b
      OBVIOUS
    <2>2. \A k \in DOMAIN w : (k = 1 /\ w[k] = a) \/ (k = 2 /\ w[k] = b)
      BY BeginsListOfTwo
    <2>3. "part" # "start"
      OBVIOUS
    <2> QED
      BY <1>2, <2>1, <2>2, <2>3
  <1>5. \A w \in {<<>>, <<a>>, Answer413} :
          /\ \A k \in DOMAIN w : k <= 2 /\ w[k] = Answer413[k]
          /\ \A j, k \in DOMAIN w :
               (w[j][1] = "start" /\ w[k][1] = "start" => j = k) /\ w[j][2] = w[k][2]
    BY <1>2, <1>4
  <1> QED
    BY <1>1, <1>2, <1>3, <1>5 DEF a, b

\* A message of the application.
LEMMA AppMessage == ASSUME NEW kind \in {"start", "part"} PROVE <<kind, "app">> \in Messages
  BY DEF Messages

\* Each step keeps it.
LEMMA CallKeeps == ASSUME BInv, Call PROVE BInv'
  BY DEF BInv, Call, BodyTypeOK, TooLarge, Refused, CutOff, PassedOn, Rejecting

LEMMA RejectKeeps == ASSUME BInv, RejectStart \/ RejectPart PROVE BInv'
  <1>1. BodyTypeOK'
    <2>1. wire' \in Seq(Messages)
      <3>1. PICK m \in Messages : wire' = Append(wire, m)
        BY TwoMessages DEF RejectStart, RejectPart
      <3>2. wire \in Seq(Messages)
        BY DEF BInv, BodyTypeOK
      <3> QED
        BY <3>1, <3>2
    <2>2. given' \in Seq(Nat \union {Gone})
      <3>1. given \in Seq(Nat \union {Gone}) /\ (given' = given \/ given' = Append(given, Gone))
        BY DEF BInv, BodyTypeOK, RejectStart, RejectPart
      <3> QED
        BY <3>1
    <2>3. at' \in {"reading", "rejected", "returned"}
      BY DEF RejectStart, RejectPart
    <2> QED
      BY <2>1, <2>2, <2>3 DEF BInv, BodyTypeOK, RejectStart, RejectPart, Gone
  <1>2. wire' = Append(wire, IF at = "rejecting" THEN Answer413[1] ELSE Answer413[2])
    BY DEF RejectStart, RejectPart
  <1>3. CASE RejectStart
    <2>1. Rejecting => Rejecting'
      BY <1>2, <1>3, TwoMessages DEF RejectStart, Rejecting
    <2> QED
      BY <1>1, <1>3, <2>1 DEF BInv, RejectStart, TooLarge, Refused, CutOff, PassedOn
  <1>4. CASE RejectPart
    <2>1. Rejecting => Rejecting'
      BY <1>2, <1>4, TwoMessages DEF RejectPart, Rejecting
    <2>2. CASE TooLarge
      BY <1>1, <1>4, <2>1, <2>2 DEF BInv, RejectPart, TooLarge, Refused
    <2>3. CASE ~TooLarge
      <3>1. rejected /\ CutOff /\ at = "rejected"
        BY <1>4, <2>3 DEF BInv, PassedOn, RejectPart
      <3>2. given \in Seq(Nat \union {Gone}) /\ Len(arrived) = Len(given) + 1 /\ arrived \in Seq(Nat \union {Gone}) /\ arrived[Len(arrived)] # Gone
        BY <3>1 DEF CutOff, BInv, BodyTypeOK
      <3>3. given' = Append(given, Gone) /\ arrived' = arrived /\ at' = "reading"
        BY <1>4, <2>3 DEF RejectPart
      <3>4. Len(arrived) \in DOMAIN given' /\ given'[Len(arrived)] = Gone /\ Len(arrived) \in DOMAIN arrived
        BY <3>2, <3>3
      <3>5. CutOff'
        BY <1>4, <2>1, <3>1, <3>2, <3>3, <3>4 DEF CutOff, RejectPart, Gone
      <3> QED
        BY <1>1, <1>4, <2>3, <3>1, <3>5 DEF BInv, RejectPart, TooLarge
    <2> QED
      BY <2>2, <2>3
  <1> QED
    BY <1>3, <1>4

LEMMA ReceiveKeeps == ASSUME BInv, NEW e \in Sizes \union {Gone}, Receive(e) PROVE BInv'
  <1>1. e \in Nat \union {Gone} /\ (e # Gone => e \in Nat) /\ MaxBytes \in Nat
    BY BodyAssumption
  <1>2. ~TooLarge /\ at = "reading"
    BY DEF BInv, Receive, Refused
  <1>3. BodyTypeOK'
    <2>1. Append(arrived, e) \in Seq(Nat \union {Gone}) /\ Append(given, e) \in Seq(Nat \union {Gone})
      BY <1>1 DEF BInv, BodyTypeOK
    <2>2. received' \in Nat /\ body' \in Nat
      BY <1>1 DEF BInv, BodyTypeOK, Receive, Counts
    <2> QED
      BY <2>1, <2>2 DEF BInv, BodyTypeOK, Receive, Gone
  <1>4. arrived \in Seq(Nat \union {Gone}) /\ given \in Seq(Nat \union {Gone}) /\ arrived' = Append(arrived, e)
    BY DEF BInv, BodyTypeOK, Receive
  <1>5. CASE rejected
    <2>1. given' = Append(given, e) /\ at' = at /\ rejected' = rejected /\ ~started /\ CutOff /\ body' >= body
      BY <1>1, <1>2, <1>5 DEF Receive, Counts, BInv, CutOff, BodyTypeOK
    <2>2. PICK k \in DOMAIN given : given[k] = Gone /\ k \in DOMAIN arrived /\ arrived[k] # Gone
      BY <1>2, <2>1 DEF CutOff
    <2>3. k \in DOMAIN given' /\ given'[k] = given[k] /\ k \in DOMAIN arrived' /\ arrived'[k] = arrived[k]
      BY <1>4, <2>1, <2>2
    <2>4. CutOff'
      BY <1>1, <1>2, <1>3, <2>1, <2>2, <2>3 DEF CutOff, Receive, Rejecting, Gone, BInv, BodyTypeOK
    <2> QED
      BY <1>2, <1>3, <1>5, <2>1, <2>4 DEF BInv, Receive, TooLarge
  <1>6. CASE ~rejected
    <2>1. PassedOn
      BY <1>2, <1>6 DEF BInv
    <2>2. CASE rejected'
      <3>1. Counts(e) /\ received' > MaxBytes /\ at' = "rejecting" /\ given' = given /\ body' = received'
        BY <1>6, <2>1, <2>2 DEF Receive, Counts, PassedOn
      <3>2. e # Gone /\ ~started /\ wire = <<>> /\ sender = "nothing"
        BY <2>1, <3>1 DEF Counts, PassedOn, BInv, BodyTypeOK
      <3>3. Len(arrived') = Len(given') + 1 /\ arrived'[Len(arrived')] # Gone
        BY <1>4, <2>1, <3>1, <3>2 DEF PassedOn
      <3>4. CutOff'
        BY <3>1, <3>2, <3>3 DEF CutOff, Receive, Rejecting, Gone
      <3> QED
        BY <1>2, <1>3, <2>2, <3>4 DEF BInv, Receive, TooLarge
    <2>3. CASE ~rejected'
      <3>1. given' = Append(given, e) /\ at' = at /\ body' = received' /\ body' <= MaxBytes
        BY <1>1, <1>6, <2>1, <2>3, <1>3 DEF Receive, Counts, PassedOn, BodyTypeOK
      <3>2. PassedOn'
        BY <1>4, <2>1, <3>1 DEF PassedOn, Receive
      <3> QED
        BY <1>2, <1>3, <2>3, <3>2 DEF BInv, Receive, TooLarge
    <2> QED
      BY <2>2, <2>3
  <1> QED
    BY <1>5, <1>6

LEMMA SendKeeps == ASSUME BInv, NEW kind \in {"start", "part"}, Send(kind) PROVE BInv'
  <1>1. answered \in Seq({"start", "part"}) /\ answered' = Append(answered, kind)
    BY DEF BInv, BodyTypeOK, Send
  <1>2. Len(answered') = Len(answered) + 1 /\ answered'[Len(answered')] = kind
        /\ \A k \in 1..Len(answered) : answered'[k] = answered[k]
    BY <1>1
  <1>3. BodyTypeOK'
    <2>1. answered' \in Seq({"start", "part"})
      BY <1>1
    <2>2. started' \in BOOLEAN /\ sender' \in {"nothing", "start", "part"}
      BY DEF BInv, BodyTypeOK, Send, GuardedSend
    <2> QED
      BY <2>1, <2>2 DEF BInv, BodyTypeOK, Send, Gone
  <1>4. \A k \in 1..Len(answered') : (answered'[k] = "start") = (k = 1)
    BY <1>1, <1>2 DEF BInv, Send
  <1>5. ~TooLarge /\ ~TooLarge'
    BY DEF Send, TooLarge
  <1>6. CASE rejected
    <2>1. CutOff'
      BY <1>5, <1>6 DEF Send, GuardedSend, BInv, CutOff, Rejecting, Gone
    <2> QED
      BY <1>3, <1>4, <1>5, <1>6, <2>1 DEF BInv, Send
  <1>7. CASE ~rejected
    <2>1. PassedOn
      BY <1>5, <1>7 DEF BInv
    <2>2. sender' = kind /\ wire' = wire /\ kind # "nothing" /\ wire \in Seq(Messages)
      BY <1>7 DEF Send, GuardedSend, BInv, BodyTypeOK
    <2>3. Len(wire) = Len(answered) /\ \A k \in 1..Len(wire) : wire[k] = <<answered'[k], "app">>
      BY <1>2, <2>1, <2>2 DEF PassedOn, Send
    <2>4. started'
      <3>1. CASE kind = "start"
        BY <1>7, <3>1 DEF Send, GuardedSend
      <3>2. CASE kind # "start"
        BY <1>7, <2>1, <3>2 DEF Send, GuardedSend, PassedOn
      <3> QED
        BY <3>1, <3>2
    <2>5. PassedOn'
      BY <1>2, <2>1, <2>2, <2>3, <2>4 DEF PassedOn, Send
    <2> QED
      BY <1>3, <1>4, <1>5, <1>7, <2>5 DEF BInv, Send
  <1> QED
    BY <1>6, <1>7

LEMMA SentKeeps == ASSUME BInv, Sent PROVE BInv'
  <1>1. ~TooLarge /\ ~rejected /\ PassedOn
    BY DEF BInv, Sent, Refused, CutOff
  <1> DEFINE message == <<sender, "app">>
  <1>2. message \in Messages
    BY AppMessage DEF BInv, BodyTypeOK, Sent
  <1>3. wire \in Seq(Messages) /\ wire' = Append(wire, message)
    BY DEF BInv, BodyTypeOK, Sent
  <1>4. message = <<answered[Len(answered)], "app">> /\ Len(answered) = Len(wire) + 1
    BY <1>1 DEF PassedOn, Sent
  <1> HIDE DEF message
  <1>5. wire' \in Seq(Messages) /\ Len(wire') = Len(answered)
        /\ \A k \in 1..Len(wire') : wire'[k] = <<answered[k], "app">>
    BY <1>1, <1>2, <1>3, <1>4 DEF PassedOn
  <1>6. BodyTypeOK'
    BY <1>5 DEF BInv, BodyTypeOK, Sent, Gone
  <1>7. PassedOn'
    BY <1>1, <1>5 DEF PassedOn, Sent
  <1> QED
    BY <1>1, <1>6, <1>7 DEF BInv, Sent, TooLarge

LEMMA BodyStays == ASSUME BInv, UNCHANGED bodyVars PROVE BInv'
  BY DEF BInv, bodyVars, BodyTypeOK, TooLarge, Refused, CutOff, PassedOn, Rejecting, Gone

LEMMA BodyInvariance == BodySpec => []BInv
  <1>1. BodyInit => BInv
    <2> SUFFICES ASSUME BodyInit PROVE BInv
      OBVIOUS
    <2>1. Len(<<>>) = 0 /\ 1..0 = {}
      OBVIOUS
    <2>2. BodyTypeOK
      <3>1. \A S : <<>> \in Seq(S)
        OBVIOUS
      <3> QED
        BY <3>1 DEF BodyInit, BodyTypeOK
    <2>3. CASE TooLarge
      BY <2>1, <2>2, <2>3 DEF BodyInit, BInv, Refused, Rejecting
    <2>4. CASE ~TooLarge
      <3>1. PassedOn
        BY <2>1, BodyAssumption DEF BodyInit, PassedOn
      <3> QED
        BY <2>1, <2>2, <2>4, <3>1 DEF BodyInit, BInv
    <2> QED
      BY <2>3, <2>4
  <1>2. BInv /\ [BodyNext]_bodyVars => BInv'
    BY CallKeeps, RejectKeeps, ReceiveKeeps, SendKeeps, SentKeeps, BodyStays DEF BodyNext
  <1> QED
    BY <1>1, <1>2, PTL DEF BodySpec

\* What the two properties follow from.
LEMMA OneAnswer == ASSUME BInv PROVE OneAnswerOnTheWire
  <1>1. CASE wire \in {<<>>, <<Answer413[1]>>, Answer413}
    BY <1>1, TwoMessages DEF OneAnswerOnTheWire
  <1>2. CASE PassedOn
    <2>1. wire \in Seq(Messages) /\ answered \in Seq({"start", "part"}) /\ Len(wire) <= Len(answered)
      BY <1>2 DEF BInv, BodyTypeOK, PassedOn
    <2>2. \A k \in DOMAIN wire : wire[k] = <<answered[k], "app">> /\ (answered[k] = "start") = (k = 1)
      <3>1. DOMAIN wire = 1..Len(wire) /\ \A k \in 1..Len(wire) : k \in 1..Len(answered)
        BY <2>1
      <3> QED
        BY <1>2, <3>1 DEF PassedOn, BInv
    <2> QED
      BY <2>2 DEF OneAnswerOnTheWire
  <1> QED
    BY <1>1, <1>2 DEF BInv, Refused, CutOff, Rejecting, BodyTypeOK

LEMMA Exact == ASSUME BInv PROVE BodyLimitIsExact
  <1>1. TooLarge = (declared # None /\ declared > MaxBytes)
    BY DEF TooLarge
  <1>2. wire \in {<<>>, <<Answer413[1]>>, Answer413} => \A k \in DOMAIN wire : k <= 2 /\ wire[k] = Answer413[k]
    BY TwoMessages
  <1>3. CASE TooLarge
    <2>1. Refused
      BY <1>3 DEF BInv
    <2> QED
      BY <1>1, <1>2, <1>3, <2>1 DEF BodyLimitIsExact, Refused, Rejecting, BInv, BodyTypeOK
  <1>4. CASE ~TooLarge /\ rejected
    <2>1. CutOff /\ body > MaxBytes
      BY <1>4 DEF BInv, CutOff
    <2> QED
      BY <1>1, <1>2, <1>4, <2>1 DEF BodyLimitIsExact, CutOff, Rejecting
  <1>5. CASE ~TooLarge /\ ~rejected
    <2>1. PassedOn
      BY <1>5 DEF BInv
    <2> DEFINE messages == [k \in DOMAIN answered |-> <<answered[k], "app">>]
               S == Messages
               seen == IF sender = "nothing" THEN wire ELSE Append(wire, <<sender, "app">>)
    <2>2. wire \in Seq(S) /\ answered \in Seq({"start", "part"})
          /\ (sender # "nothing" => <<sender, "app">> \in S)
      BY AppMessage DEF BInv, BodyTypeOK
    <2>3. seen = messages
      <3>1. Len(seen) = Len(answered) /\ seen \in Seq(S) /\ \A k \in 1..Len(answered) : seen[k] = <<answered[k], "app">>
        <4>1. CASE sender = "nothing"
          BY <2>1, <2>2, <4>1 DEF PassedOn
        <4>2. CASE sender # "nothing"
          <5> DEFINE last == <<sender, "app">>
          <5>1. last \in S /\ last = <<answered[Len(answered)], "app">> /\ Len(answered) = Len(wire) + 1
                /\ seen = Append(wire, last)
            BY <2>1, <2>2, <4>2 DEF PassedOn
          <5> HIDE DEF last
          <5> QED
            BY <2>1, <2>2, <5>1 DEF PassedOn
        <4> QED
          BY <4>1, <4>2
      <3> HIDE DEF seen, S
      <3>2. DOMAIN seen = 1..Len(answered) /\ DOMAIN answered = 1..Len(answered)
            /\ seen = [k \in DOMAIN seen |-> seen[k]]
        BY <2>2, <3>1
      <3> QED
        BY <3>1, <3>2, Zenon
    <2>4. ~(body > MaxBytes) /\ given = arrived
      BY <2>1, BodyAssumption DEF PassedOn, BInv, BodyTypeOK
    <2> HIDE DEF messages, seen
    <2> QED
      BY <1>1, <1>5, <2>3, <2>4 DEF BodyLimitIsExact, messages, seen
  <1> QED
    BY <1>3, <1>4, <1>5 DEF BInv, BodyTypeOK

\* Every reachable state of a limited exchange is well typed.
THEOREM BodyTypeCorrectness == BodySpec => []BodyTypeOK
  <1>1. BInv => BodyTypeOK
    BY DEF BInv
  <1> QED
    BY <1>1, BodyInvariance, PTL

\* api/body_limit.py: for any limit, any chunks and any answer, in whatever order the two tasks of
\* the application take turns, a client gets the messages of one answer only.
THEOREM OneAnswerIsSent == BodySpec => []OneAnswerOnTheWire
  BY OneAnswer, BodyInvariance, PTL

\* api/body_limit.py: for any limit, what is within it passes whole in both directions, and what
\* is not is answered 413 and cut off.
THEOREM TheBodyLimitIsExact == BodySpec => []BodyLimitIsExact
  BY Exact, BodyInvariance, PTL
=============================================================================
