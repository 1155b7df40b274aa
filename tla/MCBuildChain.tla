---------------------------- MODULE MCBuildChain ----------------------------
(***************************************************************************)
(* BuildChain for TLC: every order of five functions, cut into two files,  *)
(* for one command (sum has a switch, whose jump is a jr as well); and two *)
(* small projects for commands that follow each other, the sources         *)
(* changing in between.                                                    *)
(***************************************************************************)
EXTENDS BuildChain

L(kind, name) == [kind |-> kind, name |-> name]

Blocks == {
    <<L("label", "main"), L("call", "scanf"), L("call", "sum"), L("exit", "")>>,
    <<L("label", "sum"), L("call", "printf"), L("jr", "a5"), L("call", "mul"),
      L("call", "sum"), L("jr", "ra")>>,
    <<L("label", "mul"), L("call", "abs"), L("other", ""), L("jr", "ra")>>,
    <<L("label", "neg"), L("other", ""), L("jr", "ra")>>,
    <<L("label", "top"), L("call", "neg"), L("call", "mul"), L("call", "neg"), L("jr", "ra")>> }

\* Files may be listed in either order, so that half of the cuts give all layouts.
Layouts ==
    {[a |-> FlattenSeq(SubSeq(o, 1, cut)), b |-> FlattenSeq(SubSeq(o, cut + 1, Len(o)))] :
        o \in SetToSeqs(Blocks), cut \in 0 .. Cardinality(Blocks) \div 2}

\* A caller and a callee in a file each; the callee moved to the caller's file.
Caller == <<L("label", "main"), L("call", "twice"), L("exit", "")>>
Callee == <<L("label", "twice"), L("call", "abs"), L("jr", "ra")>>
MCEdits == {[a |-> Caller, b |-> Callee], [a |-> Caller \o Callee]}
MCProjects == Layouts \cup MCEdits

MCListing     == <<L("other", "listing")>>
MCSystemLines == <<L("label", "push"), L("call", "isFull"), L("jr", "ra")>>

\* What the theorems ask of a program.
ASSUME MCNamesAssumption == Linkable /\ OwnNames
=============================================================================
