--------------------------- MODULE MCServerBuild ---------------------------
(***************************************************************************)
(* Three manifests: loc and loc2 install from host directories, arc from   *)
(* an archive by two layout rules whose targets meet, and with a template  *)
(* over one of its files.  The two configs have one filename.              *)
(***************************************************************************)
EXTENDS ServerBuild

CONSTANTS s1, s2, loc, loc2, arc, c1, c2, f1, f2, f3, d1, d2

MCFiles == {f1, f2, f3}
MCDirOf == [p \in {loc, loc2, arc} |-> IF p = loc THEN d1 ELSE IF p = loc2 THEN d2 ELSE NoDir]
MCSharedDirOf == [p \in {loc, loc2, arc} |-> IF p = arc THEN NoDir ELSE d1]
MCPublished == [x \in {d1, d2, arc} |-> IF x = arc THEN {f1, f2, f3} ELSE {f1, f2}]
MCIgnore == [p \in {loc, loc2, arc} |-> IF p = loc THEN {f2} ELSE IF p = arc THEN {f3} ELSE {}]
MCLayout == [p \in {loc, loc2, arc} |->
               IF p = arc THEN << [f \in {f1, f3} |-> f], [f \in {f2} |-> f1] >> ELSE <<>>]
MCTemplate == [p \in {loc, loc2, arc} |-> IF p = arc THEN {f2} ELSE {}]
MCFilename == [c \in {c1, c2} |-> f3]
MCPlans == { [plugins |-> <<loc, arc>>, configs |-> <<>>],
             [plugins |-> <<arc, loc>>, configs |-> <<c2, c1>>],
             [plugins |-> <<loc2>>, configs |-> <<>>] }
=============================================================================
