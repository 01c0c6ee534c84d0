----------------------------- MODULE MCRecall -----------------------------
(* Instances of Recall: a group with the owner and another member, and the *)
(* sessions and contexts the gate turns away.                              *)
EXTENDS Recall
CONSTANTS owner, member, m1

Session(platform, chat, user, context) ==
  [platform |-> platform, chat |-> chat, user |-> user, context |-> context]

Group == Session("telegram", "group", NoId, "primary")

Local == {"cli"}
Listing == {<<"telegram", owner>>}
Everyone == {NoId, owner, member}
\* The group, each kind of session the gate decides on at initialize, and a subagent.
SharedIdents ==
  {Group, Session("telegram", "dm", owner, "primary"), Session("telegram", "dm", member, "primary"),
   Session("cron", "none", NoId, "primary"), Session("cli", "none", NoId, "subagent")}
===========================================================================
