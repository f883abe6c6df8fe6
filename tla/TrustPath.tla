----------------------------- MODULE TrustPath -----------------------------
(***************************************************************************)
(* src/filter.rs: in strict mode a trusted file is validated by its path,  *)
(* then opened by its canonical path and read (read_strict_file()), and    *)
(* the helper is validated the same way and executed later on              *)
(* (from_command()).  Every system call of that is a step; between the     *)
(* steps the directory tree may change, by users within their permissions  *)
(* and by root.                                                            *)
(*                                                                         *)
(* A path is the sequence of its names from the root directory.            *)
(***************************************************************************)
EXTENDS Naturals, SequencesExt

CONSTANTS
    RootDir, Dirs, Files, Links,  \* the inodes; RootDir is one of Dirs
    Foreign,      \* those of them that belong to a user in any case
    None,         \* no inode
    Slots,        \* the <<directory, name>> pairs that are used
    Fits,         \* the inodes each of them may hold, besides None
    Target,       \* the path each link holds
    Trees,        \* what may be in the slots at first
    Paths,        \* what may be configured
    StickyPath,   \* /nix/store
    MaxLinks,     \* links followed before ELOOP
    MaxUnsafe,    \* bound on the other inodes that are not root's alone
    MaxEdits      \* bound on what root changes in the tree

Inodes == Dirs \cup Files \cup Links

ASSUME TrustPathAssumption ==
    /\ RootDir \in Dirs
    /\ None \notin Inodes
    /\ Dirs \cap Files = {} /\ (Dirs \cup Files) \cap Links = {}
    /\ Foreign \subseteq Inodes
    /\ Slots \subseteq Dirs \X STRING
    /\ Paths \subseteq Seq(STRING)
    /\ Target \in [Links -> Seq(STRING)]
    /\ Fits \in [Slots -> SUBSET Inodes]
    /\ Trees \subseteq [Slots -> Inodes \cup {None}]
    /\ {MaxLinks, MaxUnsafe, MaxEdits} \subseteq Nat

VARIABLES
    path,       \* the configured path
    perm,       \* who may change each inode: "root" alone; others as well,
                \* of which "sticky" is the restricted way; "user": its owner
    entry,      \* what is in each slot
    tampered,   \* history: files of root's that a user has written to
    first,      \* history: what was in each slot at first
    edits,      \* history: how many entries root has changed
    careless,   \* history: one of them so that users may have a say
    pc,
    at,         \* the number of names in the prefix being looked at
    canonical,  \* the canonical path, as far as it is known
    follows,    \* links fs::canonicalize() has followed
    expected,   \* the inode fs::metadata() has found
    opened,     \* the inode opened or executed
    result,     \* "none", "err" or "ok"
    text        \* whose text that was, and whether it was all of it

config == <<path, perm, first>>
tree == <<entry, tampered, edits, careless>>
vars == <<config, tree, pc, at, canonical, follows, expected, opened, result, text>>

----------------------------------------------------------------------------
(* How the kernel walks along a path p of a tree e.                        *)

Child(e, i, name) == IF <<i, name>> \in Slots THEN e[<<i, name>>] ELSE None

(* The inodes a path leads to, name by name, no link being followed.       *)
Walk(e, p) ==
    LET walk[n \in 0 .. Len(p)] ==
            IF n = 0 THEN RootDir ELSE Child(e, walk[n - 1], p[n])
    IN  walk

LinksOn(e, p) == {k \in 1 .. Len(p) : Walk(e, p)[k] \in Links}

(* The link that ends the first k names gives way to what it holds.        *)
Follow(e, p, k) == Target[Walk(e, p)[k]] \o SubSeq(p, k + 1, Len(p))

FollowFirst(e, p) ==
    IF LinksOn(e, p) = {} THEN p
    ELSE Follow(e, p, CHOOSE k \in LinksOn(e, p) : \A j \in LinksOn(e, p) : k <= j)

(* The path after n of its links have been followed.                       *)
Followed(e, p) ==
    LET followed[n \in 0 .. MaxLinks] ==
            IF n = 0 THEN p ELSE FollowFirst(e, followed[n - 1])
    IN  followed

(* stat(): every link is followed, but too many are an error.              *)
Stat(e, p) ==
    LET q == Followed(e, p)[MaxLinks]
        i == Walk(e, q)[Len(q)]
    IN  IF i \in Dirs \cup Files THEN i ELSE None

(* lstat(): the last name is not followed.                                 *)
Lstat(e, p) == IF p = <<>> THEN RootDir ELSE Child(e, Stat(e, Front(p)), Last(p))

----------------------------------------------------------------------------
Perms(i) == CASE i \in Dirs -> {"open", "sticky", "user"}
              [] i \in Files -> {"open", "user"}
              [] i \in Links -> {"user"}

TypeOK ==
    /\ path \in Paths
    /\ \A i \in Inodes : perm[i] \in Perms(i) \cup {"root"}
    /\ entry \in [Slots -> Inodes \cup {None}] /\ first \in Trees
    /\ tampered \subseteq Files
    /\ edits \in 0 .. MaxEdits /\ careless \in BOOLEAN
    /\ pc \in {"normal", "lexical", "canonicalize", "resolved", "regular",
               "expected", "open", "read", "exec", "done"}
    /\ canonical \in Seq(STRING) /\ at \in Nat /\ follows \in 0 .. MaxLinks
    /\ {expected, opened} \subseteq Inodes \cup {None}
    /\ result \in {"none", "err", "ok"}
    /\ text \in [by : {"nobody", "root", "user"}, whole : BOOLEAN]

Init ==
    /\ path \in Paths
    /\ perm \in {p \in [Inodes -> {"root", "open", "sticky", "user"}] :
                   /\ \A i \in Inodes : p[i] \in Perms(i) \cup {"root"}
                   /\ \A i \in Foreign : p[i] = "user"
                   /\ Cardinality({i \in Inodes \ Foreign : p[i] # "root"}) <= MaxUnsafe}
    /\ entry \in Trees
    /\ first = entry
    /\ tampered = {}
    /\ edits = 0
    /\ careless = FALSE
    /\ pc = "normal"
    /\ at = 0
    /\ canonical = path
    /\ follows = 0
    /\ expected = None
    /\ opened = None
    /\ result = "none"
    /\ text = [by |-> "nobody", whole |-> FALSE]

----------------------------------------------------------------------------
(* validate_trust_path()                                                   *)

Goto(label) == pc' = label /\ at' = 0 /\ UNCHANGED result
Fail == pc' = "done" /\ result' = "err" /\ UNCHANGED at

(* The path has to be absolute and without "." and ".."; of such paths the
   model needs no more than that they are refused.                         *)
CheckNormal ==
    /\ pc = "normal"
    /\ Goto("lexical") \/ Fail
    /\ UNCHANGED <<config, tree, canonical, follows, expected, opened, text>>

(* validate_mode()                                                         *)
ValidMode(p, i) ==
    perm[i] = "root" \/ (perm[i] = "sticky" /\ p = StickyPath)

(* What validate_components() asks of one prefix of a path.                *)
ValidComponent(p, allowSymlink) ==
    LET i == Lstat(entry, p) IN
    /\ i # None
    /\ perm[i] # "user"
    /\ IF i \in Links THEN allowSymlink ELSE ValidMode(p, i)

(* One turn of the loop of validate_components().                          *)
ValidateComponent(label, p, allowSymlink, next) ==
    /\ pc = label
    /\ IF ~ValidComponent(SubSeq(p, 1, at), allowSymlink) THEN Fail
       ELSE IF at < Len(p) THEN at' = at + 1 /\ UNCHANGED <<pc, result>>
       ELSE Goto(next)
    /\ UNCHANGED <<config, tree, canonical, follows, expected, opened, text>>

(* Mutant: only where the links lead is validated.                         *)
LexicalUnchecked ==
    /\ pc = "lexical"
    /\ Goto("canonicalize")
    /\ UNCHANGED <<config, tree, canonical, follows, expected, opened, text>>

(* The path as configured: root's links are allowed.                       *)
ValidateLexical == ValidateComponent("lexical", path, TRUE, "canonicalize")

(* fs::canonicalize() asks for the link at one name after another, and
   starts again with what a link holds.                                    *)
Canonicalize ==
    LET i == Walk(entry, canonical)[at] IN
    /\ pc = "canonicalize"
    /\ IF i = None \/ (i \in Links /\ follows = MaxLinks)
         THEN Fail /\ UNCHANGED <<canonical, follows>>
       ELSE IF i \in Links
         THEN /\ canonical' = Follow(entry, canonical, at)
              /\ follows' = follows + 1
              /\ at' = 0
              /\ UNCHANGED <<pc, result>>
       ELSE /\ IF at < Len(canonical)
                 THEN at' = at + 1 /\ UNCHANGED <<pc, result>>
                 ELSE Goto("resolved")
            /\ UNCHANGED <<canonical, follows>>
    /\ UNCHANGED <<config, tree, expected, opened, text>>

(* Mutant: where the links lead is not validated.                          *)
ResolvedUnchecked ==
    /\ pc = "resolved"
    /\ Goto("regular")
    /\ UNCHANGED <<config, tree, canonical, follows, expected, opened, text>>

(* The canonical path: no links any more.                                  *)
ValidateResolved == ValidateComponent("resolved", canonical, FALSE, "regular")

(* The last test, after which the caller reads the file or executes it.    *)
CheckRegular ==
    /\ pc = "regular"
    /\ IF Stat(entry, canonical) \in Files
         THEN Goto("expected") \/ Goto("exec")
         ELSE Fail
    /\ UNCHANGED <<config, tree, canonical, follows, expected, opened, text>>

----------------------------------------------------------------------------
(* read_strict_file() and the execution of the helper.                     *)

Expect ==
    /\ pc = "expected"
    /\ IF Stat(entry, canonical) = None
         THEN Fail /\ UNCHANGED expected
         ELSE Goto("open") /\ expected' = Stat(entry, canonical)
    /\ UNCHANGED <<config, tree, canonical, follows, opened, text>>

(* What is opened has to be what metadata() found; its own metadata no
   longer depends on the path.                                             *)
Open ==
    LET i == Stat(entry, canonical) IN
    /\ pc = "open"
    /\ opened' = i
    /\ IF i = None \/ i # expected THEN Fail ELSE Goto("read")
    /\ UNCHANGED <<config, tree, canonical, follows, expected, text>>

By(i) == IF i \in tampered \/ perm[i] = "user" THEN "user" ELSE "root"

Accept(i, all) ==
    /\ pc' = "done"
    /\ result' = "ok"
    /\ text' = [by |-> By(i), whole |-> all]
    /\ UNCHANGED at

(* Mutant: a file that is too long is cut.                                 *)
Truncated(fits) == Accept(opened, fits)

(* read_bounded(): a file fits into MAX_POLICY_BYTES or one byte more is
   seen of it, and that is an error.                                       *)
Bounded(fits) == fits /\ Accept(opened, TRUE)

(* The read may fail, as that of a directory does, and what it gives may
   not be UTF-8.                                                           *)
Read ==
    /\ pc = "read"
    /\ \/ opened \in Files /\ \E fits \in BOOLEAN : Bounded(fits)
       \/ Fail /\ UNCHANGED text
    /\ UNCHANGED <<config, tree, canonical, follows, expected, opened>>

(* The helper is executed by its canonical path.                           *)
Execute ==
    LET i == Stat(entry, canonical) IN
    /\ pc = "exec"
    /\ opened' = i
    /\ \/ i \in Files /\ Accept(i, TRUE)
       \/ Fail /\ UNCHANGED text
    /\ UNCHANGED <<config, tree, canonical, follows, expected>>

Module ==
    \/ CheckNormal \/ ValidateLexical \/ Canonicalize \/ ValidateResolved
    \/ CheckRegular \/ Expect \/ Open \/ Read \/ Execute

----------------------------------------------------------------------------
(* What happens to the tree meanwhile.                                     *)

(* An entry is made, removed or replaced, by rename() in one step.  A
   directory is in one place at a time.                                    *)
SetEntry(s, i) ==
    /\ i \in (Fits[s] \cup {None}) \ {entry[s]}
    /\ i \in Dirs => \A t \in Slots : entry[t] # i
    /\ entry' = [entry EXCEPT ![s] = i]
    /\ UNCHANGED <<config, tampered, pc, at, canonical, follows, expected,
                   opened, result, text>>

(* A user may change the entries of a directory that is writable, but in a
   sticky one neither those of root nor what root has put there.           *)
Writable(s) ==
    \/ perm[s[1]] \in {"open", "user"}
    \/ perm[s[1]] = "sticky" /\ (entry[s] # None => perm[entry[s]] = "user")

(* Hard links let a user put in any file; directories are put in by users
   a little more freely than a file system lets them.                      *)
UserEdit(s, i) ==
    /\ pc # "done"
    /\ Writable(s)
    /\ SetEntry(s, i)
    /\ UNCHANGED <<edits, careless>>

(* Root removes what users cannot put back, or puts a file of its own there.
   A directory or a link of root's may lead to what is not root's.         *)
Careful(s, i) == IF i = None THEN perm[s[1]] = "root"
                             ELSE i \in Files /\ perm[i] = "root"

RootEdit(s, i) ==
    /\ pc # "done"
    /\ edits < MaxEdits
    /\ edits' = edits + 1
    /\ careless' = (careless \/ ~Careful(s, i))
    /\ SetEntry(s, i)

(* A user's own file holds that user's text in any case.                   *)
UserWrite(f) ==
    /\ pc # "done"
    /\ perm[f] = "open"
    /\ f \notin tampered
    /\ tampered' = tampered \cup {f}
    /\ UNCHANGED <<config, entry, edits, careless, pc, at, canonical, follows,
                   expected, opened, result, text>>

Others ==
    \/ \E s \in Slots, i \in Inodes \cup {None} : UserEdit(s, i) \/ RootEdit(s, i)
    \/ \E f \in Files : UserWrite(f)

Over == pc = "done" /\ UNCHANGED vars

Next == Module \/ Others \/ Over

Spec == Init /\ [][Next]_vars

----------------------------------------------------------------------------
(* Properties.                                                             *)

(* "Its trusted file must be a regular root-owned file with root-owned path
   components and no group or world write permission" (README.md): what is
   read or executed is root's text, all of it, whatever users do between the
   checks and the use.  Root may replace and remove files meanwhile, but not
   put in directories and links that have not been checked.                *)
RootsText ==
    result = "ok" /\ ~careless => text = [by |-> "root", whole |-> TRUE]

RootsOwn(i) == perm[i] \in {"root", "sticky"}

(* What is in the sticky store was root's already.                         *)
Settled ==
    \A s \in Slots : perm[s[1]] = "sticky" =>
        first[s] # None /\ perm[first[s]] # "user"

(* As far as its first link a path only leads through what is root's own.  *)
RootsWalk(p) ==
    LET walk == Walk(first, p) IN
    \A k \in 0 .. Len(p) :
        (\A j \in 1 .. k - 1 : walk[j] \notin Links) =>
            walk[k] = None \/ walk[k] \in Links \/ RootsOwn(walk[k])

(* So it does whichever of its links have been followed.                   *)
RootsWay(p) == \A n \in 0 .. MaxLinks : RootsWalk(Followed(first, p)[n])

(* No link of root's leads through a directory where users may put links.  *)
Straight ==
    \A s \in Slots :
        RootsOwn(s[1]) /\ first[s] \in Links /\ perm[first[s]] = "root" =>
            RootsWay(Target[first[s]])

(* It is also the file the configured path led to when the request began:
   while root leaves the tree alone, no user leads the request to another,
   even to another of root's, be it that the path as configured is validated
   before its links are followed.                                          *)
NotLedAstray ==
    result = "ok" /\ edits = 0 /\ Settled /\ Straight => opened = Stat(first, path)
============================================================================
