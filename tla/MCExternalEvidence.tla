--------------------------- MODULE MCExternalEvidence ---------------------------
(* Two providers of three external families, over one native one, for      *)
(* 512 ways in which they can need one another, themselves and the native  *)
(* one.                                                                    *)
EXTENDS ExternalEvidence, TLC

CONSTANTS git, hub, commits, authors, assets, fn

TwoProviders == {git, hub}
External == {commits, authors, assets}
FourFamilies == External \cup {fn}
Owners == {git :> {commits, authors} @@ hub :> {assets}}
Needs ==
    {commits :> c @@ authors :> a @@ assets :> s @@ fn :> {} :
        c \in SUBSET {authors, assets, fn},
        a \in SUBSET External,
        s \in SUBSET {commits, authors, fn}}
Installations == [owns: Owners, needs: Needs]

(* A call brings no table, the native one, or one a provider owns as well. *)
Requests == [families: SUBSET External, tables: {{}, {fn}, {fn, assets}}]
================================================================================
