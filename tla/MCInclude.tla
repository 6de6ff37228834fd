------------------------------ MODULE MCInclude ------------------------------
(***************************************************************************)
(* The disks that TLC reads scripts from.                                   *)
(***************************************************************************)
EXTENDS Include, TLC

a      == <<"a">>
b      == <<"d", "b">>
MainFile == <<"m">>
Home     == <<"home", ".remark">>
Data     == <<"usr", "share">>

skip    == <<Token("SKIP")>>
incl(n) == <<Token("INCLUDE"), String(n)>>

(* The script: up to two statements, of which one may be wrong.              *)
Statements == {skip, incl(a), incl(b), <<String(a)>>, <<Token("INCLUDE")>>}
Texts      == {<<>>} \cup Statements \cup {s \o t : s, t \in Statements}

(* What it includes: nothing, statements around an include, an error behind  *)
(* one, a file in a circle, or a file that is locked.                        *)
Included == {<<>>, skip \o incl(b) \o skip, incl(a) \o <<String(a)>>, incl(b), Locked}

(* a and b beside the script, or b's own a and another one in a place that   *)
(* is looked at last.                                                        *)
AllDisks ==
    {(MainFile :> m) @@ (a :> x) @@ (b :> y) : m \in Texts, x \in Included, y \in Included}
    \cup {(MainFile :> m) @@ (b :> y) @@ (<<"d", "a">> :> skip) @@ ((Data \o a) :> x) :
            m \in Texts, x \in Included, y \in Included}
    \cup {(MainFile :> m) @@ ((Home \o b) :> y) @@ ((Data \o a) :> x) @@ ((Home \o a) :> skip) :
            m \in Texts, x \in Included, y \in Included}
    \cup {<<>>, MainFile :> Locked}
===============================================================================
