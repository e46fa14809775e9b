----------------------------- MODULE MCCrawler -----------------------------
(* Instances of Crawler for TLC.                                           *)
EXTENDS Crawler

CONSTANTS seed, a, b, out, logout, buy, search, wipe, login, order, remove, op

MCUrls == {seed, a, b, out, logout, buy}
MCAction == [f \in {search, wipe, login} |->
               IF f = search THEN b ELSE IF f = wipe THEN buy ELSE None]
MCOperations == <<op>>
MCExtraSeeds == <<a>>

\* A passive, anonymous crawl and three active ones that submit forms; the last one
\* may not remember every URL.
MCConfigs ==
  {[authenticated |-> FALSE, submitForms |-> FALSE, post |-> FALSE, robots |-> TRUE,
    maxPages |-> 4, postCap |-> 0, seenCap |-> 5],
   [authenticated |-> TRUE, submitForms |-> TRUE, post |-> TRUE, robots |-> TRUE,
    maxPages |-> 5, postCap |-> 1, seenCap |-> 5],
   [authenticated |-> FALSE, submitForms |-> TRUE, post |-> TRUE, robots |-> FALSE,
    maxPages |-> 4, postCap |-> 3, seenCap |-> 5],
   [authenticated |-> TRUE, submitForms |-> TRUE, post |-> TRUE, robots |-> FALSE,
    maxPages |-> 5, postCap |-> 2, seenCap |-> 4]}

MCLinkLists == {<<>>, <<a, b>>, <<b, out, a>>, <<logout, buy>>}
MCFormLists == {<<>>, <<search, order>>, <<remove, wipe>>, <<login, order>>}
=============================================================================
