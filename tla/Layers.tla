------------------------------- MODULE Layers -------------------------------
(***************************************************************************)
(* Directory bundles and their update layers: bundle/layering.py, the     *)
(* overlaying of bundle/extensions.py, and how a backup tells what has    *)
(* changed (backup/runs.py).                                              *)
(*                                                                         *)
(* A directory holds an entry, or nothing, at each of its Paths.  A       *)
(* bundle holds an entry, a deletion, or nothing said, at each path, and  *)
(* extends the bundles beneath it for the rest.  Bundles are              *)
(* content-addressed: bundles[b] is what the name b names, for good,      *)
(* whether or not this node still holds it.  A bundle is never split      *)
(* here, so it reaches one extension for each layer beneath it.           *)
(***************************************************************************)
EXTENDS Naturals, Sequences, FiniteSets

CONSTANTS
  Paths,         \* what a directory may hold something at
  Entries,       \* what may be there
  Contents(_),   \* the objects that the bytes of an entry are stored as
  Attributes(_), \* those its extended attributes are, where too large for the bundle
  Absent,        \* nothing there; in a layer, what was there is gone
  Unsaid,        \* in a layer: as the bundle beneath has it
  Unknown,       \* no bundle, or no place among layers
  MaxLayers,     \* layers above the last bundle stored whole, at most
  MaxExtensions  \* bundles a reader follows from one, at most

VARIABLES
  bundles  \* every bundle ever made, by name

ASSUME LayersAssumption ==
  /\ MaxLayers \in Nat
  /\ MaxExtensions \in Nat
  /\ Absent \notin Entries
  /\ Unsaid \notin Entries \cup {Absent}
  /\ \A entry \in Entries : IsFiniteSet(Contents(entry)) /\ IsFiniteSet(Attributes(entry))

Directories == [Paths -> Entries \cup {Absent}]

Made == DOMAIN bundles

First(S) == CHOOSE i \in S : \A j \in S : i <= j

(* What a bundle says of each path: what it holds, or else what the first *)
(* it extends that says anything of it does.                               *)
said[b \in Made] ==
  [p \in Paths |->
     LET top == bundles[b]
         says == {i \in DOMAIN top.extensions : said[top.extensions[i]][p] # Unsaid}
     IN IF top.entries[p] # Unsaid \/ says = {} THEN top.entries[p]
        ELSE said[top.extensions[First(says)]][p]]

resolve_directory(b) == [p \in Paths |-> IF said[b][p] = Unsaid THEN Absent ELSE said[b][p]]

(* A bundle and all a reader follows from it. *)
Reached(b) == {b} \cup {bundles[b].extensions[i] : i \in DOMAIN bundles[b].extensions}

(* The objects that bringing back an entry takes, and a bundle. *)
Parts(entry) == IF entry = Absent THEN {} ELSE Contents(entry) \cup Attributes(entry)
Needed(b) == Reached(b) \cup UNION {Parts(resolve_directory(b)[p]) : p \in Paths}

(* A bundle kept expanded, to build the next one from: Superseded. *)
NothingHeldBack == [p \in Paths |-> Unsaid]
Expanded(b, entries, beneath, layers) ==
  [bundle |-> b, entries |-> entries, beneath |-> beneath, layers |-> layers, held_back |-> NothingHeldBack]
NotExpanded == Expanded(Unknown, [p \in Paths |-> Absent], <<>>, Unknown)

seen(superseded) ==
  [p \in Paths |-> IF superseded.held_back[p] = Unsaid THEN superseded.entries[p] ELSE superseded.held_back[p]]

(* What is there but for its metadata. *)
Outline(entries) == [p \in Paths |-> IF entries[p] = Absent THEN {Absent} ELSE Contents(entries[p])]
changes_content(superseded, entries) == Outline(superseded.entries) # Outline(entries)

(* MUTANT: what was deleted is left out of a layer. *)
changes_NotDeletions(superseded, entries) ==
  [p \in Paths |-> IF entries[p] \in {superseded.entries[p], Absent} THEN Unsaid ELSE entries[p]]
changes(superseded, entries) ==
  [p \in Paths |-> IF superseded.entries[p] = entries[p] THEN Unsaid ELSE entries[p]]

(* A bundle read back, its place among layers being what was recorded of  *)
(* it, unless it lists fewer beneath it.                                   *)
ReadBack(b, layers) ==
  LET extensions == bundles[b].extensions
      entries == resolve_directory(b)
  IN IF layers = Unknown \/ layers > Len(extensions)
     THEN Expanded(b, entries, <<>>, Unknown)
     ELSE Expanded(b, entries, SubSeq(extensions, Len(extensions) - layers + 1, Len(extensions)), layers)

(* One expanded from elsewhere: its place is told by the first it extends *)
(* that it supersedes.                                                     *)
ExpandedFrom(b) ==
  LET extensions == bundles[b].extensions
      layers == IF extensions # <<>> /\ extensions[1] = bundles[b].supersedes THEN Len(extensions) ELSE 0
  IN ReadBack(b, layers)

(* The new version as a layer over the one it supersedes, or whole. *)
Layered(superseded) ==
  /\ superseded.bundle # Unknown
  /\ superseded.layers # Unknown
  /\ superseded.layers < MaxLayers
  /\ superseded.layers + 1 <= MaxExtensions

NewVersion(superseded, entries, supersedes, protection) ==
  IF Layered(superseded)
  THEN [entries |-> changes(superseded, entries),
        extensions |-> <<superseded.bundle>> \o superseded.beneath,
        supersedes |-> supersedes, protection |-> protection]
  ELSE [entries |-> [p \in Paths |-> IF entries[p] = Absent THEN Unsaid ELSE entries[p]],
        extensions |-> <<>>, supersedes |-> supersedes, protection |-> protection]

(* What names a bundle: the same one, where it was made before. *)
NameOf(bundle) ==
  IF \E b \in Made : bundles[b] = bundle THEN CHOOSE b \in Made : bundles[b] = bundle ELSE Len(bundles) + 1
Naming(bundle) == bundles' = IF \E b \in Made : bundles[b] = bundle THEN bundles ELSE Append(bundles, bundle)

(* The bundle it keeps, if entries change nothing of it that is to be     *)
(* published: content, or, where asked, anything.                         *)
Kept(superseded, latest, entries, publish_metadata) ==
  IF superseded.bundle = Unknown
  THEN IF entries = latest.entries THEN Expanded(latest.bundle, entries, <<>>, Unknown) ELSE NotExpanded
  ELSE IF entries = superseded.entries THEN [superseded EXCEPT !.held_back = NothingHeldBack]
  ELSE IF publish_metadata THEN NotExpanded
  ELSE IF entries = seen(superseded) THEN superseded
  ELSE IF changes_content(superseded, entries) THEN NotExpanded
  ELSE [superseded EXCEPT !.held_back = changes(superseded, entries)]
=============================================================================
