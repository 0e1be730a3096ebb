----------------------------- MODULE MCBringup -----------------------------
(* Every set of processor features; loaders with and without the magic     *)
(* number, modules and a map, with records of 20 and of 24 bytes, up to    *)
(* one more of each than the tables hold, and with lengths that end inside *)
(* the last record; APICs with two to six entries, and pages that hold     *)
(* none.                                                                   *)
EXTENDS Bringup

MCMaps == {
  <<>>, 0 :> [size |-> 20, record |-> "low"],
  0 :> [size |-> 24, record |-> "low"] @@ 28 :> [size |-> 20, record |-> "high"],
  0 :> [size |-> 20, record |-> "low"] @@ 24 :> [size |-> 24, record |-> "mid"]
    @@ 52 :> [size |-> 20, record |-> "high"]}
LengthOf(m) == IF m = <<>> THEN 0 ELSE MapThenSumSet(LAMBDA o : m[o].size + 4, DOMAIN m)
MCMods == {<<>>, <<[start |-> 16, end |-> 20]>>,
           <<[start |-> 16, end |-> 20], [start |-> 24, end |-> 24], [start |-> 32, end |-> 40]>>}
Regular == {[magic |-> g, flags |-> f, mods |-> mo, mmap |-> ma, mmapLength |-> LengthOf(ma)] :
                g \in BOOLEAN, f \in SUBSET {3, 6}, mo \in MCMods, ma \in MCMaps}
CutShort(l) == [l EXCEPT !.mmapLength = @ - 4]
MCLoaders == Regular
  \cup {CutShort(l) : l \in {k \in Regular : k.magic /\ 3 \notin k.flags /\ k.mmapLength > 0}}
MCGarbage == [size |-> 8, record |-> "garbage"]
=============================================================================
