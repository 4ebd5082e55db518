------------------------ MODULE MCPluginConvergence ------------------------
(* Instances of PluginConvergence for TLC. *)
EXTENDS PluginConvergence, TLC

CONSTANTS i1, i2, d1, d2

TwoInstances == {i1, i2}
TwoDisks     == {d1, d2}
OneDisk      == {d1}
OwnDisks     == (i1 :> d1) @@ (i2 :> d2)
SharedDisk   == [i \in TwoInstances |-> d1]
TwoVersions  == {1, 2}
SecondAsync  == {2}
AtFirst      == {Nothing, 1}
FirstOnly    == {1}

Starts(scripts) == UNION {{SubSeq(s, 1, n) : n \in 0..Len(s)} : s \in scripts}

\* Any two of these; one beside a pass that is held up or with a setup() that
\* takes too long; an uninstallation and a reload only of a disabled plugin.
Twice ==
    LET Mix  == {"install", "upgrade", "rollback", "disable", "enable",
                 "crash", "download fails", "setup fails"}
        Rows == {"install", "upgrade", "disable"}
        Held == {"pass is held up"}
    IN  Starts(Mix \X Mix) \cup Starts(Rows \X Held) \cup Starts(Held \X Rows) \cup
        Starts({"install", "upgrade"} \X {"setup is slow"}) \cup
        Starts({<<"disable", "uninstall", "delete fails">>, <<"disable", "reload">>})
\* Bound: nothing is asked of a pass that was overtaken but that it was.
NotOvertaken == ~overtaken
OneUpgrade == Starts({<<"upgrade">>})
=============================================================================
