----------------------------- MODULE SiteSearch -----------------------------
(***************************************************************************)
(* What a user is promised of a crawl: a search that starts at the target, *)
(* visits what it knows of and may visit, once and within its room, learns *)
(* from every answer, sends a form or an operation only when nothing it    *)
(* knows of is left to visit, and does not stop before there is nothing    *)
(* left to do or no room to do it.  What it was shown and does not know of *)
(* it has told of.                                                         *)
(*                                                                         *)
(* Nothing is said of queues, sitemaps, phases or the order of visits.     *)
(***************************************************************************)
EXTENDS Integers, FiniteSets

CONSTANTS
  Urls,
  Seed,
  Candidates    \* the forms and operations there are

VARIABLES
  allowed,   \* the URLs this crawl may visit besides the seed
  room,      \* how many answers and how many submissions it may come to
  shown,     \* the URLs the site has shown
  known,     \* the URLs it keeps in mind
  offers,    \* the candidates it has met and may send
  told,      \* whether the report says that a limit cut something off
  visited,
  sent,
  answers,   \* how many answers it has read
  ended

vars == <<allowed, room, shown, known, offers, told, visited, sent, answers, ended>>

\* Nothing is forgotten, and what is not kept in mind is told of.
Learns ==
  /\ shown \subseteq shown' /\ known \subseteq known' /\ offers \subseteq offers'
  /\ shown' \subseteq Urls /\ known' \subseteq Urls /\ offers' \subseteq Candidates
  /\ told => told'
  /\ ~told' => shown' \intersect allowed \subseteq known'

NothingToVisit == known \intersect allowed \subseteq visited

Init ==
  /\ allowed \subseteq Urls
  /\ room \in [answers : Nat \ {0}, sent : Nat]
  /\ shown \subseteq Urls /\ known = {Seed} /\ offers \subseteq Candidates
  /\ told = FALSE
  /\ visited = {} /\ sent = {} /\ answers = 0
  /\ ended = FALSE

Visit(u) ==
  /\ ~ended /\ answers < room.answers
  /\ u \in known \ visited
  /\ IF visited = {} THEN u = Seed ELSE u \in allowed
  /\ visited' = visited \union {u} /\ answers' = answers + 1
  /\ Learns
  /\ UNCHANGED <<allowed, room, sent, ended>>

\* Before the search proper: what the site says of itself.
Prepare ==
  /\ ~ended /\ visited = {Seed} /\ answers = 1
  /\ Learns
  /\ UNCHANGED <<allowed, room, visited, sent, answers, ended>>

Send(c) ==
  /\ ~ended /\ answers < room.answers /\ Cardinality(sent) < room.sent
  /\ c \in offers \ sent
  /\ Seed \in visited /\ NothingToVisit
  /\ sent' = sent \union {c} /\ answers' = answers + 1
  /\ Learns
  /\ UNCHANGED <<allowed, room, visited, ended>>

End ==
  /\ ~ended /\ Seed \in visited
  /\ answers < room.answers =>
       /\ NothingToVisit
       /\ Cardinality(sent) < room.sent => offers \subseteq sent
  /\ ended' = TRUE
  /\ UNCHANGED <<allowed, room, shown, known, offers, told, visited, sent, answers>>

Next ==
  \/ Prepare \/ End
  \/ \E u \in Urls : Visit(u)
  \/ \E c \in Candidates : Send(c)

Spec == Init /\ [][Next]_vars
=============================================================================
