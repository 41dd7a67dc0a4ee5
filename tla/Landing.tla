--------------------------------- MODULE Landing ---------------------------------
(***************************************************************************)
(* Where a name from a ticket or a manifest leads: the lexical guards and    *)
(* the ones that follow links, of the receiver (engine.rs) and of the sender *)
(* (listener.rs), and what a landed file is said to be (content_check.rs).   *)
(* A path is the sequence of what stands between its slashes, a place the    *)
(* path of a file below a root once no link is left in it, or Outside.       *)
(***************************************************************************)
EXTENDS Naturals, Sequences, SequencesExt

CONSTANT Outside

Place == Seq(STRING) \cup {Outside}

ASSUME LandingAssumption == Outside \notin Seq(STRING)

(* segments that are no plain name: one of each kind the guards tell apart  *)
Blank == ""
Dot == "."
Up == ".."
Drive == "C:x"
Colon == "a:x"
Reserved == "CON"
Trailing == "a."
Backslash == "a\\x"
Unsafe == {Blank, Dot, Up, Drive, Colon, Reserved, Trailing, Backslash}

(* safe_rel_path: an absolute path starts with a blank segment              *)
SafeRelPath(rel) == rel # <<>> /\ \A i \in 1..Len(rel) : rel[i] \notin Unsafe

SafeFilename(name) == SafeRelPath(name) /\ Len(name) = 1

-----------------------------------------------------------------------------
(* Links.  `links` gives the place that each link below a root leads to.    *)

Walk(links, at, segment) ==
    CASE at = Outside -> Outside
      [] at # Outside /\ segment \in {Blank, Dot} -> at
      [] at # Outside /\ segment = Up -> IF at = <<>> THEN Outside ELSE Front(at)
      [] OTHER -> LET next == Append(at, segment)
                  IN IF next \in DOMAIN links THEN links[next] ELSE next

(* fs::canonicalize below a root                                            *)
PlaceOf(links, path) ==
    FoldLeft(LAMBDA at, segment : Walk(links, at, segment), <<>>, path)

Absolute(path) == Len(path) > 1 /\ Head(path) = Blank

\* Mutant: only the place of the file itself is looked at, not its directory
PreparesEntryLexically(links, rel) == rel \notin DOMAIN links

(* the file itself, whatever link may stand there                           *)
FileAt(links, rel) ==
    LET parent == PlaceOf(links, Front(rel))
    IN IF parent = Outside THEN Outside ELSE Append(parent, Last(rel))

(* what is pulled is first written to a `.part` beside the file, through a   *)
(* link that stands there (pull_file_inner, receive_into_part)              *)
PartOf(file) == IF file = Outside THEN Outside ELSE Append(Front(file), Last(file) \o ".part")

PartLinked(links, rel) == PartOf(FileAt(links, rel)) \in DOMAIN links

WritesAt(links, rel) ==
    IF PartLinked(links, rel) THEN links[PartOf(FileAt(links, rel))] ELSE FileAt(links, rel)

(* a `.part` that is removed                                                *)
Unlinked(links, rel) == Restrict(links, DOMAIN links \ {PartOf(FileAt(links, rel))})

(* one that is renamed, to a numbered name or to the file's own, where it    *)
(* replaces a link that leads nowhere                                       *)
Renamed(links, rel) ==
    LET file == FileAt(links, rel)
        rest == Unlinked(links, rel)
        moved == [at \in DOMAIN rest \cup {file} |->
                      IF at = file THEN WritesAt(links, rel) ELSE rest[at]]
    IN {rest, IF PartLinked(links, rel) THEN moved ELSE Restrict(rest, DOMAIN rest \ {file})}

(* prepare_entry_dest, after safe_rel_path                                  *)
PreparesEntry(links, rel) ==
    LET parent == PlaceOf(links, Front(rel))
    IN parent # Outside /\ Append(parent, Last(rel)) \notin DOMAIN links

(* resolve_within_root                                                      *)
ResolvesWithin(links, rel) ==
    /\ rel # <<>> /\ ~Absolute(rel)
    /\ \A i \in 1..Len(rel) : rel[i] # Up
    /\ PlaceOf(links, rel) # Outside

-----------------------------------------------------------------------------
(* content_check::check.  A claim or a signature is the name of a type, or   *)
(* None: a file without an extension, a ticket without a mime, bytes that no *)
(* signature recognises.                                                    *)

None == "none"

\* Mutant: the declared mime is not looked at
AgreesByName(claim, mime, sniffed) == claim \in {None, sniffed}

Agrees(claim, mime, sniffed) == claim \in {None, sniffed} /\ mime \in {None, sniffed}

Verdict(claim, mime, sniffed) ==
    CASE sniffed = None -> "unverifiable"
      [] sniffed # None /\ Agrees(claim, mime, sniffed) -> "match"
      [] OTHER -> "mismatch"
=============================================================================
