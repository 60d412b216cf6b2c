---------------------------- MODULE MCTableExecution ----------------------------
(* Four rules: a contextual one over the modules, a general one over the   *)
(* functions, one that joins functions with the commits of a provider, and *)
(* a contextual one over the assets of another.  ModuleFact is what the    *)
(* language probe reads.  The installations: one in which the assets *)
(* need the commits and those the functions, two without a provider of the *)
(* assets of which one needs them, a cycle, and a provider that owns the   *)
(* functions the kernel builds as well.                                    *)
EXTENDS TableExecution

CONSTANTS r1, r2, r3, r4, fn, mod, commits, assets, git, hub, py

FourFamilies == {fn, mod, commits, assets}
FourRules == {r1, r2, r3, r4}
FourReads == r1 :> {mod} @@ r2 :> {fn} @@ r3 :> {fn, commits} @@ r4 :> {assets}
TwoModelRules == {r1, r4}
TwoExternal == {commits, assets}
TwoBuildable == {fn, mod}
GeneralRules == {r2, r4}
TwoProviders == {git, hub}
OneLanguage == {py}

Nothing == [f \in FourFamilies |-> {}]
PythonWants ==
    [r \in FourRules |->
        IF r = r1 THEN [Nothing EXCEPT ![mod] = {py}]
        ELSE IF r = r3 THEN [Nothing EXCEPT ![fn] = {py}] ELSE Nothing]

Both == git :> {commits} @@ hub :> {assets}
Installations ==
    {[owns |-> Both,
      needs |-> [Nothing EXCEPT ![commits] = {fn}, ![assets] = {commits, mod}]],
     [owns |-> git :> {commits} @@ hub :> {}, needs |-> [Nothing EXCEPT ![commits] = {assets}]],
     [owns |-> git :> {commits} @@ hub :> {}, needs |-> Nothing],
     [owns |-> Both,
      needs |-> [Nothing EXCEPT ![commits] = {assets}, ![assets] = {commits}]],
     [owns |-> git :> {commits} @@ hub :> {assets, fn},
      needs |-> [Nothing EXCEPT ![assets] = {fn}]]}
ObservedLanguages ==
    {[Nothing EXCEPT ![fn] = f, ![mod] = m] : f, m \in SUBSET {py}}
ASSUME OwnersAssumption == ProvidersOwnNoOther
FailureLimits == {NoLimit, 3}
================================================================================
