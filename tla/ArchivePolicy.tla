---------------------------- MODULE ArchivePolicy ----------------------------
(***************************************************************************)
(* What an artifact's bytes must be for the kind its name gives it:        *)
(* ArchivePolicy.validate for 3MF archives, and inspect_path around it.    *)
(* Bytes are an archive with a directory of entries, a mesh with so many   *)
(* vertices and faces, or something else.  The directory is what the       *)
(* archive says of itself, and all that validate goes by.                  *)
(***************************************************************************)
EXTENDS Naturals, Sequences, SequencesExt

CONSTANTS
  MaxEntries,      \* ArchivePolicy.max_entries
  MaxUncompressed, \* ArchivePolicy.max_uncompressed_bytes
  MaxRatio         \* 1_000

ASSUME LimitsAssumption == {MaxEntries, MaxUncompressed, MaxRatio} \subseteq Nat

Kinds == {"stl", "3mf", "gcode-3mf", "snapshot"}

(* The part a name has in a 3MF: entries can share one, not the name.      *)
Parts == {"types", "model", "gcode", "other"}

(* An entry: its path and whether it stays inside the archive, whether it  *)
(* is a symbolic link, its two sizes, and whether it holds hardened XML.   *)
Entries ==
  [name : Parts \X Nat, confined : BOOLEAN, link : BOOLEAN,
   file_size : Nat, compress_size : Nat, xml : BOOLEAN]

Bytes ==
  [archive : Seq(Entries)] \cup [vertices : Nat, faces : Nat] \cup [opaque : BOOLEAN]

Part(e) == e.name[1]

-----------------------------------------------------------------------------
(* The loop over the entries.                                              *)

(* A bug: each entry is held against the limit on its own.                 *)
LargestEntry(entries, i) == entries[i].file_size

(* total, after entry i *)
Uncompressed(entries, i) ==
  FoldLeft(LAMBDA total, e : total + e.file_size, 0, SubSeq(entries, 1, i))

(* Nothing is expanded from nothing, nor by more than the ratio.           *)
Expandable(e) ==
  /\ e.compress_size = 0 => e.file_size = 0
  /\ e.compress_size # 0 => e.file_size <= MaxRatio * e.compress_size

Admitted(entries, i) ==
  /\ entries[i].confined /\ ~entries[i].link
  /\ Uncompressed(entries, i) <= MaxUncompressed
  /\ Expandable(entries[i])
  /\ \A k \in 1..(i - 1) : entries[k].name # entries[i].name

(* validate: the limits, then the documents that the kind calls for.       *)
validate(entries, sliced) ==
  LET of(part) == {e \in ToSet(entries) : Part(e) = part} IN
  /\ Len(entries) \in 1..MaxEntries
  /\ \A i \in DOMAIN entries : Admitted(entries, i)
  /\ of("types") # {}
  /\ IF sliced THEN of("gcode") # {} ELSE of("model") # {}
  /\ \A e \in of("types") \cup of("model") : e.xml

inspect_path(bytes, kind) ==
  \/ kind = "snapshot"
  \/ /\ kind \in {"3mf", "gcode-3mf"}
     /\ "archive" \in DOMAIN bytes
     /\ validate(bytes.archive, kind = "gcode-3mf")
  \/ /\ kind = "stl"
     /\ "faces" \in DOMAIN bytes
     /\ bytes.vertices # 0 /\ bytes.faces # 0

-----------------------------------------------------------------------------
(* What whoever opens an artifact of a kind counts on: an archive unpacks  *)
(* into distinct files that stay where they are put and take no more than  *)
(* the limit, each in proportion to what it was sent as, and has a plate   *)
(* to print or a model to slice; a mesh has a surface.                     *)
Files(bytes) == {bytes.archive[i] : i \in DOMAIN bytes.archive}

Usable(bytes, kind) ==
  /\ kind \in {"3mf", "gcode-3mf"} =>
       /\ \A e \in Files(bytes) :
            e.confined /\ ~e.link /\ e.file_size \in 0..(MaxRatio * e.compress_size)
       /\ FoldFunction(+, 0, [i \in DOMAIN bytes.archive |-> bytes.archive[i].file_size])
            \in 0..MaxUncompressed
       /\ \A i, k \in DOMAIN bytes.archive :
            bytes.archive[i].name = bytes.archive[k].name => i = k
       /\ \E e \in Files(bytes) : Part(e) = IF kind = "3mf" THEN "model" ELSE "gcode"
  /\ kind = "stl" => bytes.faces > 0
=============================================================================
