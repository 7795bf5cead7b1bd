--------------------------- MODULE MCArtifactStore ---------------------------
(***************************************************************************)
(* Instances of ArtifactStore for TLC: a project that is also sliced, two  *)
(* meshes, archives that each miss one limit by one, and bytes that only   *)
(* pass as a snapshot.  Archives hold at most 3 entries and 12 bytes, none *)
(* expanded more than four times.                                          *)
(***************************************************************************)
EXTENDS ArtifactStore, TLC

Entry(part, n, size, packed) ==
  [name |-> <<part, n>>, confined |-> TRUE, link |-> FALSE,
   file_size |-> size, compress_size |-> packed, xml |-> part \in {"types", "model"}]
Types == Entry("types", 0, 4, 1)
Plate == Entry("gcode", 1, 4, 4)

MCBytes ==
  [sliced    |-> [archive |-> <<Types, Entry("model", 1, 4, 1), Plate>>],
   large     |-> [archive |-> <<Types, Entry("gcode", 1, 5, 5), Entry("other", 1, 4, 4)>>],
   bomb      |-> [archive |-> <<Types, Entry("gcode", 1, 5, 1)>>],
   free      |-> [archive |-> <<Types, Plate, Entry("other", 1, 0, 0)>>],
   twice     |-> [archive |-> <<Types, Plate, Plate>>],
   linked    |-> [archive |-> <<Types, [Plate EXCEPT !.link = TRUE]>>],
   mesh      |-> [vertices |-> 3, faces |-> 1],
   turned    |-> [vertices |-> 3, faces |-> 1],
   junk      |-> [opaque |-> TRUE],
   huge      |-> [opaque |-> TRUE]]

Upload(content, kind) == [content |-> content, kind |-> kind, file |-> FALSE, of |-> NoContent]
SlicerOutput(content) == [Upload(content, "gcode-3mf") EXCEPT !.file = TRUE]
Transformed(content, of) == [Upload(content, "stl") EXCEPT !.of = of]

(* Every content that inspection tells apart, in one upload or two.        *)
MCRequests ==
  {Upload("sliced", "3mf"), Upload("junk", "snapshot"), Upload("junk", "gcode-3mf"),
   Upload("huge", "stl"), Upload("mesh", "stl"), Upload("mesh", "snapshot"),
   Transformed("turned", "mesh")}
  \cup {SlicerOutput(c) : c \in {"sliced", "large", "bomb", "free", "twice", "linked", "junk"}}

(* One request of each kind that can meet another on the same bytes.       *)
FewRequests == {Upload("sliced", "3mf"), SlicerOutput("sliced"), Upload("junk", "snapshot")}

Symmetry == Permutations(Uploads)
=============================================================================
