---------------------------- MODULE MCTrustPath ----------------------------
(* TrustPath for TLC: /a and /h are directories with a file f in each; /a
   may also be a link to /h, and /a/f one to /h/f.  A user has the file u and
   a link to the file /a/g, which is root's.                               *)
EXTENDS TrustPath

CONSTANTS root, d, e, f, g, other, u, toDir, toFile, toOther

MCDirs == {root, d, e}
MCFiles == {f, g, other, u}
MCLinks == {toDir, toFile, toOther}
MCSlots == {<<root, "a">>, <<root, "h">>, <<d, "f">>, <<d, "g">>, <<e, "f">>}
MCFits ==
    [s \in MCSlots |->
        CASE s[1] = root -> {d, e, toDir}
          [] s = <<d, "f">> -> {f, g, toFile}
          [] s = <<d, "g">> -> {}
          [] s = <<e, "f">> -> {d, f, g, u, toOther}]
MCTarget ==
    [l \in MCLinks |-> CASE l = toDir -> <<"h">>
                         [] l = toFile -> <<"h", "f">>
                         [] l = toOther -> <<"a", "g">>]
MCTrees ==
    {t \in [MCSlots -> MCDirs \cup MCFiles \cup MCLinks \cup {None}] :
        /\ t[<<root, "a">>] \in {d, toDir}
        /\ t[<<root, "h">>] = e
        /\ t[<<d, "f">>] \in {f, toFile}
        /\ t[<<d, "g">>] = other
        /\ t[<<e, "f">>] \in {g, u, None}}
MCPaths == {<<"a", "f">>, <<"h", "f">>}
MCStickyPath == <<"h">>
============================================================================
