------------------------------ MODULE FileStore ------------------------------
(***************************************************************************)
(* The file API of daemon/internal/files: how Store.Resolve maps the path  *)
(* of a request into one of the configured roots, and what List, Open and  *)
(* Delete then do with it, call by call, while the processes of the        *)
(* server's sessions change the same file system between those calls.      *)
(*                                                                         *)
(* A location is the sequence of names below "/".  One request is under    *)
(* way at a time: what a second one could do to the file system, a process *)
(* can do.  Resolve is one step.  Contents and permissions are left out,   *)
(* and the targets of links are absolute and without ".."; uploads are the *)
(* module Upload.                                                          *)
(***************************************************************************)
EXTENDS Integers, Sequences, FiniteSets, SequencesExt

CONSTANTS
    Names,
    DotDot,        \* the path element ".."
    Locations,     \* locations at which something may exist
    LinkTargets,   \* where symbolic links point to
    ConfiguredRoots,  \* --file-roots, a sequence of locations
    Paths,         \* request paths: [abs, parts]
    MaxLinks       \* links EvalSymlinks follows before it gives up

ASSUME NamesAssumption == DotDot \notin Names
ASSUME LocationsAssumption ==
    /\ Locations \subseteq Seq(Names) \ {<<>>}
    /\ \A loc \in Locations : Front(loc) \in Locations \cup {<<>>}
ASSUME LinksAssumption == MaxLinks \in Nat /\ LinkTargets \subseteq Seq(Names)
ASSUME RootsAssumption == ConfiguredRoots \in Seq(Seq(Names)) \ {<<>>}
ASSUME PathsAssumption ==
    \A p \in Paths : p.abs \in BOOLEAN /\ p.parts \in Seq(Names \cup {DotDot})

VARIABLES
    fs,        \* Locations -> what is there
    roots,     \* Store.roots
    op,        \* the request: "list", "download" or "delete"
    phase,     \* how far its handler is, or its answer
    abs,       \* what Resolve returned
    pending,   \* List: names ReadDir returned whose Info is still to come
    out,       \* List: names in the answer
    kept,      \* history: names in the directory since Resolve, at all times
    disturbed  \* history: DELETE: the path had a link or was changed since

requestVars == <<op, phase, abs, pending, out, kept, disturbed>>
vars == <<fs, roots, requestVars>>

Answered == {"200", "204", "403", "500"}
Ops == {"list", "download", "delete"}

Nothing == [kind |-> "none", to |-> <<>>]
Directory == [kind |-> "dir", to |-> <<>>]
File == [kind |-> "file", to |-> <<>>]
Link(target) == [kind |-> "link", to |-> target]
Nodes == {Directory, File} \cup {Link(t) : t \in LinkTargets}

Kind(loc) == IF loc = <<>> THEN "dir"
             ELSE IF loc \in Locations THEN fs[loc].kind ELSE "none"

\* The names in the directory at a location.
Children(loc) == {n \in Names : Kind(Append(loc, n)) # "none"}

TypeOK ==
    /\ fs \in [Locations -> Nodes \cup {Nothing}]
    /\ roots \in Seq(Seq(Names))
    /\ op \in Ops
    /\ phase \in {"idle", "resolved", "stated", "hashed", "infos"} \cup Answered
    /\ abs \in Seq(Names)
    /\ pending \in SUBSET Names
    /\ out \in SUBSET Names
    /\ kept \in SUBSET Names
    /\ disturbed \in BOOLEAN

-----------------------------------------------------------------------------
(***************************************************************************)
(* Paths.                                                                  *)
(***************************************************************************)

\* filepath.Clean of an absolute path: ".." takes an element away without
\* looking at the file system, and stops at "/".
Clean[parts \in Seq(Names \cup {DotDot})] ==
    IF parts = <<>> THEN <<>>
    ELSE LET above == Clean[Front(parts)] IN
         IF Last(parts) # DotDot THEN Append(above, Last(parts))
         ELSE IF above = <<>> THEN <<>> ELSE Front(above)

\* The way of a path through the file system: the links that may still be
\* followed, the location that is reached, and the names that are left.
Walkers == [links : 0 .. MaxLinks, done : Seq(Names), rest : Seq(Names)]
Ahead(w) == Append(w.done, Head(w.rest))

\* At the end, before a name that does not exist, at a link too many, and at a
\* file on the way (ENOTDIR).
Stops(w) ==
    \/ w.rest = <<>>
    \/ Kind(Ahead(w)) = "none"
    \/ Kind(Ahead(w)) = "link" /\ w.links = 0
    \/ Kind(Ahead(w)) = "file" /\ Tail(w.rest) # <<>>

Outcome(w) ==
    IF w.rest = <<>> THEN [result |-> "found", at |-> w.done]
    ELSE IF Kind(Ahead(w)) = "none" THEN [result |-> "notexist", at |-> Ahead(w)]
    ELSE [result |-> "error", at |-> Ahead(w)]

\* One name further, or to where a link leads.
Further(w) ==
    IF Kind(Ahead(w)) = "link"
    THEN [links |-> w.links - 1, done |-> <<>>,
          rest |-> fs[Ahead(w)].to \o Tail(w.rest)]
    ELSE [links |-> w.links, done |-> Ahead(w), rest |-> Tail(w.rest)]

Walk[w \in Walkers] == IF Stops(w) THEN Outcome(w) ELSE Walk[Further(w)]

\* filepath.EvalSymlinks, and the walk of the kernel: where a path leads.
EvalSymlinks(path) == Walk[[links |-> MaxLinks, done |-> <<>>, rest |-> path]]

\* Mutant: plain EvalSymlinks.
resolveExistingStrict(path) ==
    LET real == EvalSymlinks(path) IN
    IF real.result = "notexist" THEN [real EXCEPT !.result = "error"] ELSE real

\* resolveExisting: the links of the longest prefix that exists, and the rest
\* as it is.  "/" always exists.
resolveExisting(path) ==
    LET k == Max({i \in 0 .. Len(path) :
                    EvalSymlinks(SubSeq(path, 1, i)).result # "notexist"})
        real == EvalSymlinks(SubSeq(path, 1, k))
    IN  [real EXCEPT !.at = @ \o SubSeq(path, k + 1, Len(path))]

\* The comparison with root + "/", which for the root "/" is "//".
Inside(loc) ==
    \E i \in DOMAIN roots :
        loc = roots[i] \/ (roots[i] # <<>> /\ IsPrefix(roots[i], loc))

\* Mutant: the boundary is compared before the links are resolved.
ResolveUnchecked(p) ==
    LET path == Clean[IF p.abs THEN p.parts ELSE roots[1] \o p.parts]
        real == resolveExisting(path)
    IN  IF real.result # "found" THEN [result |-> "500", at |-> <<>>]
        ELSE IF Inside(path) THEN [result |-> "ok", at |-> real.at]
        ELSE [result |-> "403", at |-> <<>>]

\* Store.Resolve, with the status that statusFor gives its errors.
Resolve(p) ==
    LET real == resolveExisting(Clean[IF p.abs THEN p.parts ELSE roots[1] \o p.parts])
    IN  IF real.result # "found" THEN [result |-> "500", at |-> <<>>]
        ELSE IF Inside(real.at) THEN [result |-> "ok", at |-> real.at]
        ELSE [result |-> "403", at |-> <<>>]

\* NewStore: links in a root are resolved once; a root that does not exist
\* yet is taken as it is configured.
NewStore ==
    [i \in DOMAIN ConfiguredRoots |->
        LET real == EvalSymlinks(ConfiguredRoots[i]) IN
        IF real.result = "found" THEN real.at ELSE ConfiguredRoots[i]]

\* What os.Stat, os.Open and os.ReadDir find at a path, links followed.
Stat(loc) ==
    LET real == EvalSymlinks(loc) IN
    IF real.result = "found" THEN Kind(real.at) ELSE "none"

\* The entry itself, the links above it followed (lstat, unlink, rmdir).
EntryAt(loc) ==
    LET dir == EvalSymlinks(Front(loc)) IN
    IF loc # <<>> /\ dir.result = "found" THEN Append(dir.at, Last(loc)) ELSE <<>>
Exists(loc) == EntryAt(loc) \in Locations /\ Kind(EntryAt(loc)) # "none"

\* No link lies on the path.
LinkFree(path) == \A i \in 1 .. Len(path) : Kind(SubSeq(path, 1, i)) # "link"

-----------------------------------------------------------------------------
(***************************************************************************)
(* Requests to /files and /files/download.                                 *)
(***************************************************************************)

Init ==
    /\ fs = [loc \in Locations |-> Nothing]
    /\ roots = ConfiguredRoots
    /\ op = "list"
    /\ phase = "idle"
    /\ abs = <<>>
    /\ pending = {}
    /\ out = {}
    /\ kept = {}
    /\ disturbed = FALSE

\* handleFiles and handleDownload up to the end of Resolve; a path that is
\* missing is "." for the former.
Request(o, p) ==
    LET resolved == Resolve(p) IN
    /\ phase \in {"idle"} \cup Answered
    /\ op' = o
    /\ abs' = resolved.at
    /\ phase' = IF resolved.result = "ok" THEN "resolved" ELSE resolved.result
    /\ kept' = IF o = "list" /\ phase' = "resolved" THEN Children(abs') ELSE {}
    /\ disturbed' = (o = "delete" /\ ~LinkFree(abs'))
    /\ pending' = {}
    /\ out' = {}
    /\ UNCHANGED <<fs, roots>>

\* List: os.ReadDir.
ReadDir ==
    /\ op = "list"
    /\ phase = "resolved"
    /\ IF Stat(abs) = "dir"
       THEN /\ pending' = Children(EvalSymlinks(abs).at)
            /\ phase' = "infos"
       ELSE /\ phase' = "500"
            /\ UNCHANGED pending
    /\ UNCHANGED <<fs, roots, op, abs, out, kept, disturbed>>

\* Mutant: an entry that has vanished ends the loop.
InfoBreak(n) ==
    /\ phase = "infos"
    /\ n \in pending
    /\ IF Exists(Append(abs, n))
       THEN pending' = pending \ {n} /\ out' = out \cup {n}
       ELSE pending' = {} /\ out' = out
    /\ UNCHANGED <<fs, roots, op, phase, abs, kept, disturbed>>

\* List: e.Info() of one entry; one that has vanished is left out.
Info(n) ==
    /\ phase = "infos"
    /\ n \in pending
    /\ pending' = pending \ {n}
    /\ out' = IF Exists(Append(abs, n)) THEN out \cup {n} ELSE out
    /\ UNCHANGED <<fs, roots, op, phase, abs, kept, disturbed>>

\* List: the entries are sorted and sent.
Listed ==
    /\ phase = "infos"
    /\ pending = {}
    /\ phase' = "200"
    /\ UNCHANGED <<fs, roots, op, abs, pending, out, kept, disturbed>>

\* Mutant: only a path that does not exist is refused.
StatTargetAny ==
    /\ op \in {"download", "delete"}
    /\ phase = "resolved"
    /\ phase' = IF Stat(abs) # "none" THEN "stated" ELSE "500"
    /\ UNCHANGED <<fs, roots, op, abs, pending, out, kept, disturbed>>

\* Open and Delete: os.Stat, and directories are refused.
StatTarget ==
    /\ op \in {"download", "delete"}
    /\ phase = "resolved"
    /\ phase' = IF Stat(abs) = "file" THEN "stated" ELSE "500"
    /\ UNCHANGED <<fs, roots, op, abs, pending, out, kept, disturbed>>

\* Open: HashFile opens the path for itself; a directory cannot be read.
HashTarget ==
    /\ op = "download"
    /\ phase = "stated"
    /\ phase' = IF Stat(abs) = "file" THEN "hashed" ELSE "500"
    /\ UNCHANGED <<fs, roots, op, abs, pending, out, kept, disturbed>>

\* Open: os.Open, after which the headers and the body go out.
OpenTarget ==
    /\ op = "download"
    /\ phase = "hashed"
    /\ phase' = IF Stat(abs) = "none" THEN "500" ELSE "200"
    /\ UNCHANGED <<fs, roots, op, abs, pending, out, kept, disturbed>>

\* Delete: os.Remove, which also takes an empty directory.
RemoveTarget ==
    LET entry == EntryAt(abs) IN
    /\ op = "delete"
    /\ phase = "stated"
    /\ IF Exists(abs) /\ Children(entry) = {}
       THEN fs' = [fs EXCEPT ![entry] = Nothing] /\ phase' = "204"
       ELSE phase' = "500" /\ UNCHANGED fs
    /\ UNCHANGED <<roots, op, abs, pending, out, kept, disturbed>>

-----------------------------------------------------------------------------
(***************************************************************************)
(* The processes of the server's sessions, and restarts.                   *)
(***************************************************************************)

\* A process changes an entry on the path that a DELETE has resolved.
Disturbs(loc) ==
    op = "delete" /\ phase \in {"resolved", "stated"} /\ IsPrefix(loc, abs)

Make(loc, node) ==
    /\ fs[loc] = Nothing
    /\ Kind(Front(loc)) = "dir"
    /\ fs' = [fs EXCEPT ![loc] = node]
    /\ disturbed' = (disturbed \/ Disturbs(loc))
    /\ UNCHANGED <<roots, op, phase, abs, pending, out, kept>>

Unlink(loc) ==
    /\ fs[loc] # Nothing
    /\ Children(loc) = {}
    /\ fs' = [fs EXCEPT ![loc] = Nothing]
    /\ kept' = IF Front(loc) = abs THEN kept \ {Last(loc)} ELSE kept
    /\ disturbed' = (disturbed \/ Disturbs(loc))
    /\ UNCHANGED <<roots, op, phase, abs, pending, out>>

\* The request under way is lost, the roots are resolved anew.
DaemonRestart ==
    /\ roots' = NewStore
    /\ op' = "list"
    /\ phase' = "idle"
    /\ abs' = <<>>
    /\ pending' = {}
    /\ out' = {}
    /\ kept' = {}
    /\ disturbed' = FALSE
    /\ UNCHANGED fs

Next ==
    \/ \E o \in Ops, p \in Paths : Request(o, p)
    \/ ReadDir
    \/ \E n \in Names : Info(n)
    \/ Listed
    \/ StatTarget
    \/ HashTarget
    \/ OpenTarget
    \/ RemoveTarget
    \/ \E loc \in Locations, node \in Nodes : Make(loc, node)
    \/ \E loc \in Locations : Unlink(loc)
    \/ DaemonRestart

Spec == Init /\ [][Next]_vars

-----------------------------------------------------------------------------
(***************************************************************************)
(* Properties.                                                             *)
(***************************************************************************)

\* The two properties of Resolve are about fs and roots alone, and every fs
\* and roots is also met while no request is under way.

\* A place in a root, the root itself included.
InRoot(loc) == \E i \in DOMAIN roots : IsPrefix(roots[i], loc)

\* What Resolve has made of the links: the path it returns is in a root; every
\* part of it that leads somewhere leads to where it is, and is no link; a part
\* that leads nowhere does not exist or is a link that dangles.  Resolve
\* returns the path again when it is asked for it (as Finish does of what
\* Create has checked).  A link that dangles is not resolved, wherever it
\* points: what creates its target is not held in the root (against store.go,
\* Resolve: a symlink inside a root pointing outside cannot be followed).
OnlyDanglingLinksRemain ==
    phase = "idle" =>
      \A p \in Paths : LET real == Resolve(p) IN real.result = "ok" =>
          /\ InRoot(real.at)
          /\ \A i \in 1 .. Len(real.at) :
                LET part == SubSeq(real.at, 1, i)
                    there == EvalSymlinks(part)
                IN  \/ /\ Kind(part) \in {"dir", "file"}
                       /\ there = [result |-> "found", at |-> part]
                    \/ /\ Kind(part) \in {"none", "link"}
                       /\ there.result = "notexist"
          /\ Resolve([abs |-> TRUE, parts |-> real.at]) = real

\* No link lies on the path, and no file above its end.
Plain(path) ==
    \A i \in 1 .. Len(path) :
        Kind(SubSeq(path, 1, i)) \in IF i < Len(path) THEN {"none", "dir"}
                                     ELSE {"none", "dir", "file"}

\* Nothing in the roots is out of reach: a path without links to a place in a
\* root other than "/", whether it exists or not, resolves to that place (the
\* upload target that does not exist yet is the normal case, store.go,
\* resolveExisting).
PlainPathsAreServed ==
    phase = "idle" =>
      \A p \in Paths :
        LET path == Clean[IF p.abs THEN p.parts ELSE roots[1] \o p.parts] IN
        /\ Plain(path)
        /\ \E i \in DOMAIN roots : roots[i] # <<>> /\ IsPrefix(roots[i], path)
        => Resolve(p) = [result |-> "ok", at |-> path]

\* A DELETE that answers 204 has taken one regular file, in a root and at the
\* very place that Resolve gave, whatever processes do to the rest of the file
\* system between Resolve, Stat and Remove (store.go, Delete: directories are
\* refused).  Two cases are excepted: a link on the path dangled at Resolve, or
\* a process changed an entry on the path since; then os.Remove may take a
\* link, an empty directory, or an entry outside the roots.
DeleteTakesTheFile ==
    [][op = "delete" /\ phase = "stated" /\ phase' = "204" /\ ~disturbed =>
         /\ InRoot(abs)
         /\ abs \in Locations /\ fs[abs] = File
         /\ fs' = [fs EXCEPT ![abs] = Nothing]]_vars

\* A listing may miss what comes or goes while it is made, and nothing else:
\* an entry that was there from Resolve to the answer is in it.
ListIsComplete == op = "list" /\ phase = "200" => kept \subseteq out

=============================================================================
