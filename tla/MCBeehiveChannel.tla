-------------------------- MODULE MCBeehiveChannel --------------------------
(* Instances of BeehiveChannel: a request with one retry to m1, a            *)
(* synchronous broadcast, and plain messages that fill the channels.         *)
EXTENDS BeehiveChannel, TLC

CONSTANTS m1, m2, s1, g1, a1

Mix(s, g, a) == s1 :> s @@ g1 :> g @@ a1 :> a
MCMixes == {Mix("sync", "groupsync", "none"), Mix("sync", "none", "send"),
            Mix("none", "groupsync", "group")}
MCTarget == s1 :> m1 @@ g1 :> m1 @@ a1 :> m1
=============================================================================
