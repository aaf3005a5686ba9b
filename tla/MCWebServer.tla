----------------------------- MODULE MCWebServer -----------------------------
(* Small instances of WebServer for TLC.                                    *)
EXTENDS WebServer, TLC

Place(slashes, page, codes) == [slashes |-> slashes, page |-> page, codes |-> codes]
View(slashes, page, codes, query) == [slashes |-> slashes, page |-> page, codes |-> codes, query |-> query]

\* Nothing in range, a final status and an informational one, 101 which is none.
MCCodes == {{}, {99, 600}, {101, 103, 404}}

\* The default, a bare query, pages that log differently, and a path that is not
\* clean even without its first slash.
MCViews ==
    {View(0, "", {}, FALSE), View(0, "", {}, TRUE), View(1, "logs", {}, FALSE), View(2, "plain", {}, TRUE),
     View(0, "status", {200, 404}, FALSE), View(0, "slow", {}, TRUE)}

Ask(place, post, v) == [at |-> place, post |-> post, view |-> v]
Gets == {Ask(Place(0, p, {}), FALSE, View(0, "", {}, FALSE)) : p \in Pages \ {"status"}}
Statuses == {Ask(Place(0, "status", c), FALSE, View(0, "", {}, FALSE)) : c \in MCCodes}
Posts == {Ask(Place(0, "set-root-handler", {}), TRUE, v) : v \in MCViews}
Unclean == {Ask(Place(1, "logs", {}), FALSE, View(0, "", {}, FALSE))}

MCAsks == Gets \cup Statuses \cup Posts \cup Unclean
=============================================================================
