------------------------------ MODULE MCConfig ------------------------------
(* Two windows, one of them with two command threads; two spellings of one *)
(* path, as on Windows, and another path.                                  *)
EXTENDS ConfigStore, TLC

CONSTANTS a1, a2, b1

Symmetry == Permutations({a1, a2})
MCProcess == a1 :> "a" @@ a2 :> "a" @@ b1 :> "b"
MCNormalize == [p \in Paths |-> IF p = "X" THEN "x" ELSE p]
\* Cutting "p  q" leaves "p ", which is trimmed when it is read again.
MCTrim == " p" :> "p" @@ "p  q" :> "p " @@ "p " :> "p" @@ "p" :> "p" @@ "" :> ""
MCSaved == {[tint |-> "red", label |-> 1, colors |-> <<"pale", "url">>,
             presets |-> <<[name |-> "p", columns |-> {"c"}], [name |-> " p", columns |-> {"d"}],
                         [name |-> "p  q", columns |-> {"e"}]>>]}
MCOld == {[tint |-> "url", label |-> 3, colors |-> <<"url">>,
           presets |-> <<[name |-> "", columns |-> {"c"}], [name |-> "p", columns |-> {}],
                         [name |-> "p", columns |-> {"c"}]>>]}
MCOldApps == {[DefaultAppConfig EXCEPT !.recent_files = <<"y", "X">>, !.last_run_version = 1]}
=============================================================================
