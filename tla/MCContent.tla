----------------------------- MODULE MCContent ------------------------------
(* The store of the web interface and the image proxy, one part at a time. *)
EXTENDS PostLists, FollowLoader, ImageProxy

VARIABLE part  \* the part that is looked at

vars == <<part, contentVars, followVars, imageVars>>

Init ==
  /\ part \in {"lists", "follows", "images"}
  /\ ContentInit /\ FollowInit /\ ImageInit
  /\ view = IF part = "lists" THEN "blog" ELSE "index"
  /\ part # "follows" => following = {}

Next ==
  /\ UNCHANGED part
  /\ \/ /\ part = "lists" /\ ContentNext
        /\ UNCHANGED <<followVars, imageVars>>
     \/ /\ part = "follows" /\ FollowNext
        /\ UNCHANGED <<contentVars, imageVars>>
     \/ /\ part = "images" /\ ImageNext
        /\ UNCHANGED <<contentVars, followVars>>

(* Calls to the node end, time passes, and the reader scrolls on. *)
Fairness ==
  /\ WF_contentVars(part = "lists" /\ (fetchData \/ fetchFails))
  /\ WF_contentVars(part = "lists" /\ \E filter \in BOOLEAN : loadMore(filter))
  /\ \A c \in Category : WF_contentVars(part = "lists" /\ Expire(c))

Spec == Init /\ [][Next]_vars /\ Fairness

TypeOK == ContentTypeOK /\ FollowTypeOK /\ ImageTypeOK

(* Two blogs share their key of status; an index has its own. *)
MCCategoryOf == [l \in List |-> IF l = "index" THEN "created" ELSE "by_author"]

MCFirstPosts == [l \in List |-> IF l = "blog" THEN 4 ELSE IF l = "other" THEN 3 ELSE 1]

Asked(url, mode, format, width, height) ==
  [url |-> url,
   options |-> [mode |-> mode, format |-> format, width |-> width, height |-> height]]

MCAsk ==
  LET elsewhere == [elsewhere |-> TRUE, id |-> "w"]
      upload == [elsewhere |-> FALSE, id |-> "x"]
  IN  {Asked(elsewhere, "Fit", "Match", 0, 0), Asked(elsewhere, "Cover", "Match", 0, 0),
       Asked(upload, "Cover", "PNG", 1, 0), Asked(upload, "Cover", "PNG", 0, 1)}
=============================================================================
