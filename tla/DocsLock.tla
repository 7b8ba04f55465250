------------------------------- MODULE DocsLock -------------------------------
(* soothfast.lock, which remembers the code each bound item had when the prose *)
(* about it was verified (docs.rs: accept; soothfast-docs: lockfile.rs).       *)
(* Releases write different formats; a fingerprint is of a code, in a format.  *)
EXTENDS Naturals

CONSTANTS Pages, Scope,     \* and those soothfast.toml names
          Items, Binds,     \* bound items, and per page those it binds
          Codes,
          Formats, VERSION, \* of other releases, and this one's
          None

VARIABLES pages, \* that exist
          code,  \* of items
          lock

docslock == <<pages, code, lock>>

Scan(paths) == pages \cap (IF paths = {} THEN Scope ELSE paths)

Fingerprint(format, i) == [format |-> format, code |-> code[i]]
NoBinds == [i \in Items |-> None]

\* Slip: entries of an older format are merged over.
ComparableAny == IF lock.version > VERSION THEN {} ELSE {lock.binds}
\* The entries an accept of some pages may merge over: none of an older format,
\* and a newer lock is refused.
Comparable ==
    IF lock.version > VERSION THEN {}
    ELSE {IF lock.version = VERSION THEN lock.binds ELSE NoBinds}

\* With PATHS, what other pages bind is kept; without, it is dropped.
Accept(paths) ==
    LET bound == UNION {Binds[p] : p \in Scan(paths)} IN
    /\ \E existing \in IF paths = {} THEN {NoBinds} ELSE Comparable :
         lock' = [version |-> VERSION,
                  binds |-> [i \in Items |-> IF i \in bound THEN Fingerprint(VERSION, i)
                                             ELSE existing[i]]]
    /\ UNCHANGED <<pages, code>>

\* Another release accepts everything.
OtherRelease(format) ==
    /\ format # lock.version
    /\ lock' = [version |-> format,
                binds |-> [i \in Items |-> IF \E p \in Scan({}) : i \in Binds[p]
                                           THEN Fingerprint(format, i) ELSE None]]
    /\ UNCHANGED <<pages, code>>

EditPages(to) == to # pages /\ pages' = to /\ UNCHANGED <<code, lock>>

EditCode(i, c) ==
    /\ c # code[i] /\ code' = [code EXCEPT ![i] = c]
    /\ UNCHANGED <<pages, lock>>

LockInit ==
    /\ pages = Pages /\ code \in [Items -> Codes]
    /\ lock = [version |-> VERSION, binds |-> NoBinds]

LockNext ==
    \/ \E paths \in SUBSET Pages : Accept(paths) \/ EditPages(paths)
    \/ \E format \in Formats : OtherRelease(format)
    \/ \E i \in Items, c \in Codes : EditCode(i, c)

-----------------------------------------------------------------------------
\* The lock holds entries of the format it is stamped with, over accepts of
\* some pages and of all, by this release and by older and newer ones
\* (lockfile.rs: comparable, "dropped rather than carried under a stamp
\* claiming they are current").
StampTrue == \A i \in Items : lock.binds[i] # None => lock.binds[i].format = lock.version
=============================================================================
