--------------------------- MODULE MaterialMapping ---------------------------
(***************************************************************************)
(* X2DAdapter.material_mapping: the material routes of a slice request, one *)
(* per filament, become five parallel lists indexed by filament, which the *)
(* plan records and project_file sends to the printer.  The left nozzle    *)
(* reads its sources from ams_mapping, the right one from ams_mapping2.    *)
(***************************************************************************)
EXTENDS Integers, Sequences, Functions

CONSTANT None  \* Python's None

ASSUME NoneAssumption == None \notin Int

EXTERNAL_SPOOL_SENTINEL == 254
Unused == -1

(* A source is an AMS slot or the external spool: exclusive_source.        *)
MaterialRoute ==
  {r \in [filament_index : 0..31, nozzle : {"left", "right"}, ams_slot : 0..31 \cup {None},
          external_spool : BOOLEAN, fts_channel : 0..7 \cup {None}] :
     r.external_spool = (r.ams_slot = None)}

(* Of SliceSettings: the number of filament profiles, and the routes.      *)
SliceSettings == [filaments : Nat, material_routes : Seq(MaterialRoute)]

Routes(s) == Range(s.material_routes)

(* A filament may be routed only once, and every filament must be.  One    *)
(* filament needs no route at all.                                         *)
Mappable(s) ==
  IF s.material_routes = <<>>
    THEN s.filaments <= 1
    ELSE /\ \A i, k \in DOMAIN s.material_routes :
              s.material_routes[i].filament_index = s.material_routes[k].filament_index => i = k
         /\ {r.filament_index : r \in Routes(s)} = 0..(s.filaments - 1)

(* A bug: the routes are taken to be in the order of the filaments.        *)
RouteByPosition(s, f) == s.material_routes[f + 1]

(* by_filament.                                                            *)
Route(s, f) == CHOOSE r \in Routes(s) : r.filament_index = f

Source(r) == IF r.external_spool THEN EXTERNAL_SPOOL_SENTINEL ELSE r.ams_slot

(* The list of a nozzle; the filaments are 1..s.filaments in the lists.    *)
Sources(s, nozzle) ==
  [i \in 1..s.filaments |->
     IF Route(s, i - 1).nozzle = nozzle THEN Source(Route(s, i - 1)) ELSE Unused]

UsesAms(s) == \E r \in Routes(s) : r.ams_slot # None
UsesFts(s) == \E r \in Routes(s) : r.fts_channel # None

Mapping(s) ==
  IF s.material_routes = <<>>
    THEN [ams_mapping |-> <<>>, ams_mapping2 |-> <<>>, nozzle_mapping |-> <<>>,
          use_ams |-> FALSE, fts_mapping |-> <<>>]
    ELSE [ams_mapping |-> Sources(s, "left"),
          ams_mapping2 |-> Sources(s, "right"),
          nozzle_mapping |-> [i \in 1..s.filaments |-> IF Route(s, i - 1).nozzle = "left" THEN 0 ELSE 1],
          use_ams |-> UsesAms(s),
          fts_mapping |-> [i \in 1..s.filaments |->
                             IF Route(s, i - 1).fts_channel # None
                               THEN Route(s, i - 1).fts_channel ELSE Unused]]

-----------------------------------------------------------------------------
(* What a mapping says, read from the printer's end.                       *)

Left(m, i) == m.nozzle_mapping[i] = 0
Feed(m, i) == IF Left(m, i) THEN m.ams_mapping[i] ELSE m.ams_mapping2[i]
Other(m, i) == IF Left(m, i) THEN m.ams_mapping2[i] ELSE m.ams_mapping[i]

ReadRoute(m, i) ==
  [filament_index |-> i - 1,
   nozzle |-> IF Left(m, i) THEN "left" ELSE "right",
   ams_slot |-> IF Feed(m, i) = EXTERNAL_SPOOL_SENTINEL THEN None ELSE Feed(m, i),
   external_spool |-> Feed(m, i) = EXTERNAL_SPOOL_SENTINEL,
   fts_channel |-> IF m.fts_mapping[i] = Unused THEN None ELSE m.fts_mapping[i]]

(* A mapping loses nothing: reading it gives the routes back, each filament *)
(* feeds from one nozzle's list only, and the AMS is asked for when a route *)
(* needs it.                                                               *)
SaysWhatWasAsked(m, s) ==
  /\ {ReadRoute(m, i) : i \in DOMAIN m.nozzle_mapping} = Routes(s)
  /\ \A i \in DOMAIN m.nozzle_mapping : Other(m, i) = Unused
  /\ m.use_ams <=> \E i \in DOMAIN m.nozzle_mapping : Feed(m, i) \in 0..31
=============================================================================
