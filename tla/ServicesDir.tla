----------------------------- MODULE ServicesDir -----------------------------
(***************************************************************************)
(* What the CLI finds in a directory: its services and their project       *)
(* (packages inspector, findresource, and the walk of package services).   *)
(* A result is the set of what a function returns: none if it fails.       *)
(*                                                                         *)
(* A name is a sequence of words: "web" is <<"web">>, "shop-dev" is        *)
(* <<"shop", "dev">>, and <<>> is no name.                                 *)
(***************************************************************************)
EXTENDS Integers, Sequences, SequencesExt

\* What a directory may hold: LCP.json (that may not parse), only a Dockerfile, or neither.
\* From an LCP.json there are an id, a project and an image, each of which may be blank.
Package == [has : {"LCP.json", "broken", "Dockerfile", "nothing"},
            id : Seq(STRING), project : Seq(STRING), image : STRING]

\* An entry of a directory: what it is, and what readDir asks of it.
Entry == [name : STRING, hidden : BOOLEAN, isDir : BOOLEAN, noservice : BOOLEAN,
          pkg : Package]

\* The working directory: itself, its files in order, and the nearest LCP.json above it.
Directory == [base : Entry, files : Seq(Entry), above : {"none", "fine", "broken"}]

\* Without LCP.json the package is blank, or there is none.
Read(e) ==
    CASE e.pkg.has = "broken"  -> {}
      [] e.pkg.has = "nothing" -> {<<>>}
      [] OTHER                 -> {<<[location |-> e.name, id |-> e.pkg.id,
                                      project |-> e.pkg.project, image |-> e.pkg.image]>>}

Skipped(e) == e.hidden \/ ~e.isDir \/ e.noservice

readDir(e) == IF Skipped(e) THEN {<<>>} ELSE Read(e)

\* Two services that are read with the same ID are refused; blank ones are not compared.
checkExisting(list, s) == s.id # <<>> /\ \E i \in DOMAIN list : list[i].id = s.id

\* One more entry, after those that were read.
addFunc(lists, e) ==
    {list \o read : list \in lists, read \in readDir(e)}

\* The first entries of a directory, one after the other.
readEntries(files) ==
    LET lists[n \in 0 .. Len(files)] ==
            IF n = 0 THEN {<<>>} ELSE addFunc(lists[n - 1], files[n])
    IN  lists

NoDuplicates(list) ==
    \A i \in DOMAIN list : ~checkExisting(SubSeq(list, 1, i - 1), list[i])

\* The services of a directory: itself if it is one, or those right below it.
Walk(dir) ==
    IF readDir(dir.base) # {<<>>}
    THEN readDir(dir.base)
    ELSE {list \in readEntries(dir.files)[Len(dir.files)] : NoDuplicates(list)}

\* The nearest LCP.json, of this directory or of one above it, must parse.  The walk up
\* stops at the root, and finding none is fine.
walkToRootDirectory(dir) ==
    IF dir.base.pkg.has \in {"LCP.json", "broken"} THEN dir.base.pkg.has ELSE dir.above

loadService(dir) == walkToRootDirectory(dir) # "broken"

setUniqueProjectID(list) == \A i \in DOMAIN list : list[i].project = list[1].project

\* The services of the working directory, if nothing is wrong with it.
Overview(dir) ==
    {list \in Walk(dir) : loadService(dir) /\ setUniqueProjectID(list)}

ProjectOf(list) == IF list = <<>> THEN <<>> ELSE list[1].project
=============================================================================
