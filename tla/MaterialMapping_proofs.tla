----------------------- MODULE MaterialMapping_proofs -----------------------
(***************************************************************************)
(* A mapping loses nothing of the routes it was made from.                 *)
(***************************************************************************)
EXTENDS MaterialMapping, TLAPS

USE NoneAssumption
USE DEF EXTERNAL_SPOOL_SENTINEL, Unused

(* by_filament: each filament has one route, and it is among the routes.   *)
LEMMA RouteOf ==
  ASSUME NEW s \in SliceSettings, s.material_routes # <<>>, Mappable(s),
         NEW f \in 0..(s.filaments - 1)
  PROVE  /\ Route(s, f) \in Routes(s)
         /\ Route(s, f).filament_index = f
<1>1. \E r \in Routes(s) : r.filament_index = f
  BY DEF Mappable
<1> QED BY <1>1 DEF Route

LEMMA RoutesAreRoutes ==
  ASSUME NEW s \in SliceSettings
  PROVE  Routes(s) \subseteq MaterialRoute
BY DEF SliceSettings, Routes, Range

LEMMA RouteIsUnique ==
  ASSUME NEW s \in SliceSettings, s.material_routes # <<>>, Mappable(s),
         NEW r \in Routes(s)
  PROVE  /\ r.filament_index \in 0..(s.filaments - 1)
         /\ Route(s, r.filament_index) = r
<1>1. r.filament_index \in 0..(s.filaments - 1)
  BY DEF Mappable
<1>2. ASSUME NEW q \in Routes(s), q.filament_index = r.filament_index PROVE q = r
  BY <1>2 DEF Mappable, Routes, Range
<1> QED BY <1>1, <1>2, RouteOf

(* Reading one filament's entries of a mapping gives its route back.       *)
LEMMA ReadBack ==
  ASSUME NEW s \in SliceSettings, s.material_routes # <<>>, Mappable(s),
         NEW i \in 1..s.filaments
  PROVE  /\ ReadRoute(Mapping(s), i) = Route(s, i - 1)
         /\ Other(Mapping(s), i) = Unused
         /\ Feed(Mapping(s), i) = Source(Route(s, i - 1))
<1> DEFINE r == Route(s, i - 1)
           m == Mapping(s)
<1>1. s.filaments \in Nat /\ i - 1 \in 0..(s.filaments - 1) /\ i \in Int
  BY DEF SliceSettings
<1>2. r \in MaterialRoute /\ r.filament_index = i - 1
  BY <1>1, RouteOf, RoutesAreRoutes
<1>3. /\ m.nozzle_mapping[i] = (IF r.nozzle = "left" THEN 0 ELSE 1)
      /\ m.ams_mapping[i] = (IF r.nozzle = "left" THEN Source(r) ELSE Unused)
      /\ m.ams_mapping2[i] = (IF r.nozzle = "right" THEN Source(r) ELSE Unused)
      /\ m.fts_mapping[i] = (IF r.fts_channel # None THEN r.fts_channel ELSE Unused)
  BY DEF Mapping, Sources
<1> HIDE DEF r, m
<1>4. r.nozzle \in {"left", "right"} /\ r.external_spool \in BOOLEAN
      /\ r.ams_slot \in 0..31 \cup {None} /\ r.fts_channel \in 0..7 \cup {None}
      /\ r.external_spool = (r.ams_slot = None)
  BY <1>2 DEF MaterialRoute
<1>5. Left(m, i) <=> r.nozzle = "left"
  BY <1>3, <1>4 DEF Left
<1>6. Feed(m, i) = Source(r) /\ Other(m, i) = Unused
  BY <1>3, <1>4, <1>5 DEF Feed, Other
<1>7. (Feed(m, i) = EXTERNAL_SPOOL_SENTINEL) = r.external_spool
      /\ (IF Feed(m, i) = EXTERNAL_SPOOL_SENTINEL THEN None ELSE Feed(m, i)) = r.ams_slot
  <2>1. CASE r.external_spool = TRUE
    <3>1. Feed(m, i) = 254 /\ r.ams_slot = None
      BY <1>4, <1>6, <2>1 DEF Source
    <3> QED BY <2>1, <3>1
  <2>2. CASE r.external_spool = FALSE
    <3>1. Feed(m, i) = r.ams_slot /\ r.ams_slot \in 0..31
      BY <1>4, <1>6, <2>2 DEF Source
    <3>0. \A x \in 0..31 : ~(x = EXTERNAL_SPOOL_SENTINEL)
      OBVIOUS
    <3> HIDE DEF EXTERNAL_SPOOL_SENTINEL
    <3>2. ~(Feed(m, i) = EXTERNAL_SPOOL_SENTINEL)
      BY <3>0, <3>1, Zenon
    <3>3. (Feed(m, i) = EXTERNAL_SPOOL_SENTINEL) = FALSE
      BY <3>2, Zenon
    <3> QED BY <2>2, <3>1, <3>2, <3>3
  <2> QED BY <1>4, <2>1, <2>2
<1>9. (IF m.fts_mapping[i] = Unused THEN None ELSE m.fts_mapping[i]) = r.fts_channel
  BY <1>3, <1>4
<1>10. (IF Left(m, i) THEN "left" ELSE "right") = r.nozzle
  BY <1>4, <1>5
<1>11. ReadRoute(m, i) = r
  <2>1. r = [filament_index |-> r.filament_index, nozzle |-> r.nozzle, ams_slot |-> r.ams_slot,
             external_spool |-> r.external_spool, fts_channel |-> r.fts_channel]
    BY <1>2 DEF MaterialRoute
  <2> QED BY <2>1, <1>2, <1>7, <1>9, <1>10 DEF ReadRoute
<1> QED BY <1>6, <1>11 DEF r, m

(* Whatever the routes, a mapping says what was asked.                     *)
THEOREM MappingIsFaithful ==
  \A s \in SliceSettings : Mappable(s) => SaysWhatWasAsked(Mapping(s), s)
<1> SUFFICES ASSUME NEW s \in SliceSettings, Mappable(s) PROVE SaysWhatWasAsked(Mapping(s), s)
  OBVIOUS
<1>1. CASE s.material_routes = <<>>
  <2>1. Routes(s) = {} /\ Mapping(s).nozzle_mapping = <<>> /\ ~Mapping(s).use_ams
    BY <1>1 DEF Routes, Range, Mapping
  <2>2. DOMAIN Mapping(s).nozzle_mapping = {}
    BY <2>1
  <2> QED BY <2>1, <2>2 DEF SaysWhatWasAsked
<1>2. CASE s.material_routes # <<>>
  <2>1. DOMAIN Mapping(s).nozzle_mapping = 1..s.filaments /\ s.filaments \in Nat
        /\ Mapping(s).use_ams = UsesAms(s)
    BY <1>2 DEF Mapping, SliceSettings
  <2>2. {ReadRoute(Mapping(s), i) : i \in 1..s.filaments} = Routes(s)
    <3>1. ASSUME NEW i \in 1..s.filaments PROVE ReadRoute(Mapping(s), i) \in Routes(s)
      <4>1. i - 1 \in 0..(s.filaments - 1)
        BY <2>1
      <4> QED BY <1>2, <4>1, ReadBack, RouteOf
    <3>2. ASSUME NEW r \in Routes(s) PROVE \E i \in 1..s.filaments : ReadRoute(Mapping(s), i) = r
      <4>1. r.filament_index \in 0..(s.filaments - 1) /\ Route(s, r.filament_index) = r
        BY <1>2, RouteIsUnique
      <4>2. r.filament_index + 1 \in 1..s.filaments /\ (r.filament_index + 1) - 1 = r.filament_index
        BY <2>1, <4>1
      <4>3. ReadRoute(Mapping(s), r.filament_index + 1) = Route(s, (r.filament_index + 1) - 1)
        BY <1>2, <4>2, ReadBack
      <4> QED BY <4>1, <4>2, <4>3
    <3> QED BY <3>1, <3>2
  <2>3. \A i \in 1..s.filaments : Other(Mapping(s), i) = Unused
    BY <1>2, ReadBack
  <2>4. ASSUME NEW r \in MaterialRoute PROVE r.ams_slot # None <=> Source(r) \in 0..31
    BY DEF MaterialRoute, Source
  <2>5. UsesAms(s) <=> \E i \in 1..s.filaments : Feed(Mapping(s), i) \in 0..31
    <3>1. ASSUME NEW i \in 1..s.filaments, Feed(Mapping(s), i) \in 0..31 PROVE UsesAms(s)
      <4>1. i - 1 \in 0..(s.filaments - 1)
        BY <2>1
      <4>2. Route(s, i - 1) \in Routes(s)
        BY <1>2, <4>1, RouteOf
      <4>3. Source(Route(s, i - 1)) \in 0..31
        BY <1>2, <3>1, ReadBack
      <4> QED BY <2>4, <4>2, <4>3, RoutesAreRoutes DEF UsesAms
    <3>2. ASSUME NEW r \in Routes(s), r.ams_slot # None
          PROVE  \E i \in 1..s.filaments : Feed(Mapping(s), i) \in 0..31
      <4>1. r.filament_index \in 0..(s.filaments - 1) /\ Route(s, r.filament_index) = r
        BY <1>2, RouteIsUnique
      <4>2. r.filament_index + 1 \in 1..s.filaments /\ (r.filament_index + 1) - 1 = r.filament_index
        BY <2>1, <4>1
      <4>3. Feed(Mapping(s), r.filament_index + 1) = Source(Route(s, (r.filament_index + 1) - 1))
        BY <1>2, <4>2, ReadBack
      <4> QED BY <2>4, <3>2, <4>1, <4>2, <4>3, RoutesAreRoutes
    <3> QED BY <3>1, <3>2 DEF UsesAms
  <2> QED BY <2>1, <2>2, <2>3, <2>5 DEF SaysWhatWasAsked
<1> QED BY <1>1, <1>2
=============================================================================
