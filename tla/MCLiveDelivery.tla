--------------------------- MODULE MCLiveDelivery ---------------------------
(***************************************************************************)
(* Small instances of LiveDelivery for TLC: two sessions of which one or   *)
(* both publish, subscribe and read at once.                               *)
(***************************************************************************)
EXTENDS LiveDelivery

TwoSessions == {"s1", "s2"}
First == {"s1"}
Second == {"s2"}
PublicTopic == {"public"}
GroupTopic == {"group"}
AllTopics == {"public", "group"}
OneSub == {"x"}
TwoSubs == {"x", "y"}
=============================================================================
