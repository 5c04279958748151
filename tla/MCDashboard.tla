---------------------------- MODULE MCDashboard -----------------------------
(***************************************************************************)
(* The parts of the dashboard, the ring that it draws, and the relay that  *)
(* brings the events of other nodes to its stream, for TLC.  They share no *)
(* variable: a behaviour is about one of them, the focus, and the others   *)
(* stay as they start.                                                     *)
(***************************************************************************)
EXTENDS RingView, Relay, Feed, Console, Explorer, Strip, Chat, Guide, TLC

CONSTANTS n1, n2, n3, n4, NodeA, NodeB, NodeC

(* Interleaved virtual nodes; two nodes are neighbours twice.              *)
MCToken == n1 :> {2, 7} @@ n2 :> {1, 9} @@ n3 :> {4, 10} @@ n4 :> {5, 6}

MCHash == {0, 2, 3, 6, 8, 10, 11}

MCTypeOf == <<"key_op", "node_status", "key_op">>

MCOrigin == <<n1, n2>>

MCRingOrder == <<n2, n1, n3>>

MCMembers == 1 :> {n1, n2} @@ 2 :> {n2, n3}

MCFirstNames == <<NodeA, NodeB, NodeC>>

VARIABLE focus

DashboardInit ==
    /\ focus \in {"ring", "relay", "feed", "console", "explorer", "strip", "chat", "guide"}
    /\ Init /\ RelayInit /\ FeedInit /\ ConsoleInit /\ ExplorerInit /\ StripInit
    /\ ChatInit /\ GuideInit
    /\ focus # "feed" => ~up

DashboardNext ==
    /\ UNCHANGED focus
    /\ \/ focus = "ring" /\ Next
       \/ focus # "ring" /\ UNCHANGED vars
    /\ \/ focus = "relay" /\ RelayNext
       \/ focus # "relay" /\ UNCHANGED relayVars
    /\ \/ focus = "feed" /\ FeedNext
       \/ focus # "feed" /\ UNCHANGED feedVars
    /\ \/ focus = "console" /\ ConsoleNext
       \/ focus # "console" /\ UNCHANGED consoleVars
    /\ \/ focus = "explorer" /\ ExplorerNext
       \/ focus # "explorer" /\ UNCHANGED explorerVars
    /\ \/ focus = "strip" /\ StripNext
       \/ focus # "strip" /\ UNCHANGED stripVars
    /\ \/ focus = "chat" /\ ChatNext
       \/ focus # "chat" /\ UNCHANGED chatVars
    /\ \/ focus = "guide" /\ GuideNext
       \/ focus # "guide" /\ UNCHANGED guideVars

dashboardVars ==
    <<focus, vars, relayVars, feedVars, consoleVars, explorerVars, stripVars, chatVars,
      guideVars>>

DashboardSpec ==
    /\ DashboardInit /\ [][DashboardNext]_dashboardVars
    /\ FeedFairness

(* The state of every part has its type.                                   *)
DashboardTypeOK ==
    /\ TypeOK /\ RelayTypeOK /\ FeedTypeOK /\ ConsoleTypeOK /\ ExplorerTypeOK
    /\ StripTypeOK /\ ChatTypeOK /\ GuideTypeOK
=============================================================================
