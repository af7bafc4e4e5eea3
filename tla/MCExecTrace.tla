------------------------------ MODULE MCExecTrace ------------------------------
(* Two files, both on PATH, each of which may interpret the other, and one that *)
(* a descriptor names.  The name of f2 is that of f1 and a carriage return.     *)
EXTENDS ExecTrace
CONSTANTS f1, f2, fd, empty, name
MCFile == {f1, f2, fd}
MCHidden == {fd}
MCLinks == {f2}
MCCandidates == <<f1, f2>>
MCContent ==
  {Plain(k) : k \in Kinds \ {"script"}} \cup
  {Script(f2, <<"opt">>), Script(f1, <<>>), Script(empty, <<>>),
   Script(f2, <<>>), Script(f2, <<"opt cr">>),
   Line(f2, <<"opt">>, "opt", "o"), Line(empty, <<>>, "interp", f2)}
MCSystems ==
  {f \in [MCFile -> MCContent] :
     /\ f[f2] \in {Plain("dynamic"), Plain("static"), Plain("missing"), Script(f1, <<>>)}
     /\ f[fd] = IF f[f1] \in {Plain("dynamic"), Plain("static")} /\ f[f2] = Plain("missing")
                THEN Script(f2, <<>>) ELSE Script(f1, <<>>)}
MCPrograms == [MCFile -> {Plain("dynamic")}]
MCWord == MCFile \cup {empty, name, "opt", "opt cr", "o", "a0", "a1", "a2", "a3"}
MCTrim == [[w \in MCWord |-> w] EXCEPT ![f2] = f1, !["opt cr"] = "opt"]
MCArgv == {<<>>, <<"a0", "a1">>}
MCVarArgv == {<<"a0", "a1">>, <<"a0", "a1", "a2">>, <<"a0", "a1", "a2", "a3">>}
MCEnv ==
  {[v \in Var |-> IF v = "LD_PRELOAD" THEN "foreign" ELSE "absent"],
   [LD_PRELOAD |-> "bare", FSPY_PAYLOAD |-> "absent", USER |-> "foreign"]}
================================================================================
