--------------------------------- MODULE Docs ---------------------------------
(* Documentation pages, the example generated from their capture blocks, and  *)
(* the output recorded under each block (docs.rs, docs_generated.rs;          *)
(* soothfast-docs: gentests.rs, markdown.rs).                                 *)
(*                                                                            *)
(* A block is identified by its page and its position among the page's        *)
(* blocks.  What a code prints stands for the code.  Commands run one at a    *)
(* time, while pages are edited; each may be killed.                          *)
EXTENDS Naturals, Sequences, FiniteSets

CONSTANTS Pages, Scope,       \* and those soothfast.toml names
          Codes, MaxBlocks,
          MaxEdits,           \* bound
          None

VARIABLES
    pages,  \* per page, its capture blocks, or None
    files,  \* the generated example: per block, the code it was generated from
    gen,    \* a gen-tests that runs: what it is to write
    cap,    \* a capture that runs: the pages it read and goes through
    edits

docs == <<pages, files, gen, cap, edits>>

Block(c) == [code |-> c, out |-> None, had |-> {c}]
Ids == Pages \X (1 .. MaxBlocks)

\* `c's files, and the dispatch of main.rs, which lists the blocks.
Example(of) == [blocks |-> of, main |-> DOMAIN of]

-----------------------------------------------------------------------------
(* Scanning.                                                                  *)

Exist == {p \in Pages : pages[p] # None}
Scan(paths) == Exist \cap (IF paths = {} THEN Scope ELSE paths)

\* PATHS assign pages to the package: those it has files of are kept.
Kept(paths) ==
    IF paths = {} THEN {} ELSE {id[1] : id \in DOMAIN files.blocks} \cap Exist

\* Every file gen-tests generates.
Generated(paths) ==
    LET of == Scan(paths) \cup Kept(paths) IN
    Example([id \in {i \in Ids : i[1] \in of /\ i[2] <= Len(pages[i[1]])} |->
               pages[id[1]][id[2]].code])

Idle == gen = None /\ cap = None

-----------------------------------------------------------------------------
(* gen-tests: files that differ are written, then those left over removed.    *)

GenTests(paths) ==
    /\ Idle /\ gen' = Generated(paths)
    /\ UNCHANGED <<pages, files, cap, edits>>

Differs(id) == id \in DOMAIN files.blocks => files.blocks[id] # gen.blocks[id]

WriteMain ==
    /\ gen # None /\ files.main # gen.main
    /\ files' = [files EXCEPT !.main = gen.main]
    /\ UNCHANGED <<pages, gen, cap, edits>>

WriteBlock(id) ==
    /\ gen # None /\ files.main = gen.main /\ id \in DOMAIN gen.blocks /\ Differs(id)
    /\ files' = [files EXCEPT !.blocks =
                   [i \in DOMAIN @ \cup {id} |-> IF i = id THEN gen.blocks[id] ELSE @[i]]]
    /\ UNCHANGED <<pages, gen, cap, edits>>

Written == gen # None /\ files.main = gen.main /\ \A id \in DOMAIN gen.blocks : ~Differs(id)

RemoveFile(id) ==
    /\ Written /\ id \in DOMAIN files.blocks \ DOMAIN gen.blocks
    /\ files' = [files EXCEPT !.blocks = [i \in DOMAIN @ \ {id} |-> @[i]]]
    /\ UNCHANGED <<pages, gen, cap, edits>>

GenEnds ==
    /\ Written /\ DOMAIN files.blocks = DOMAIN gen.blocks /\ gen' = None
    /\ UNCHANGED <<pages, files, cap, edits>>

-----------------------------------------------------------------------------
(* capture: each block of each page in scope is run, and what it prints is    *)
(* put under it.                                                              *)

\* Slip: the example has a file for every block and no other.
CurrentNamed(expected) == files.main = expected.main /\ DOMAIN files.blocks = expected.main
\* The example is what gen-tests would write.
Current(expected) == files = expected

\* A stale example runs no block, nor does one that does not compile.
Capture(paths) ==
    LET of == {p \in Scan(paths) : pages[p] # <<>>} IN
    /\ Idle /\ of # {} /\ Current(Generated(paths))
    /\ \E check \in BOOLEAN :
         cap' = [check |-> check, text |-> [p \in of |-> pages[p]],
                 at |-> None, spliced |-> <<>>, ran |-> 0]
    /\ UNCHANGED <<pages, files, gen, edits>>

OpenPage(p) ==
    /\ cap # None /\ cap.at = None /\ p \in DOMAIN cap.text
    /\ cap' = [cap EXCEPT !.at = p, !.spliced = cap.text[p], !.ran = 0]
    /\ UNCHANGED <<pages, files, gen, edits>>

OnPage == cap # None /\ cap.at # None

\* A block that fails, or whose feature is off, keeps what is recorded; so
\* does one the example does not have.
RunBlock ==
    /\ OnPage /\ cap.ran < Len(cap.spliced)
    /\ LET n == cap.ran + 1
           printed == IF <<cap.at, n>> \in files.main \cap DOMAIN files.blocks
                      THEN {files.blocks[<<cap.at, n>>]} ELSE {} IN
         \E out \in printed \cup {cap.spliced[n].out} :
           cap' = [cap EXCEPT !.ran = n, !.spliced[n].out = out]
    /\ UNCHANGED <<pages, files, gen, edits>>

\* The text that was read at the start is written, with its new outputs.
ClosePage ==
    /\ OnPage /\ cap.ran = Len(cap.spliced)
    /\ pages' = IF cap.check \/ cap.spliced = cap.text[cap.at] THEN pages
                ELSE [pages EXCEPT ![cap.at] = cap.spliced]
    /\ cap' = [cap EXCEPT !.at = None, !.spliced = <<>>, !.ran = 0,
                          !.text = [p \in DOMAIN @ \ {cap.at} |-> @[p]]]
    /\ UNCHANGED <<files, gen, edits>>

CaptureEnds ==
    /\ cap # None /\ cap.at = None /\ DOMAIN cap.text = {} /\ cap' = None
    /\ UNCHANGED <<pages, files, gen, edits>>

Killed ==
    /\ ~Idle /\ gen' = None /\ cap' = None
    /\ UNCHANGED <<pages, files, edits>>

-----------------------------------------------------------------------------
(* Editing.                                                                   *)

Editing == edits < MaxEdits /\ edits' = edits + 1

EditPage(p, text) ==
    /\ Editing /\ pages' = [pages EXCEPT ![p] = text]
    /\ UNCHANGED <<files, gen, cap>>

Without(s, n) == SubSeq(s, 1, n - 1) \o SubSeq(s, n + 1, Len(s))
With(s, n, b) == SubSeq(s, 1, n - 1) \o <<b>> \o SubSeq(s, n, Len(s))

\* A block is added, taken out or changed; a page comes or goes.
EditBlocks(p) ==
    LET text == pages[p] IN
    \/ text = None /\ EditPage(p, <<>>)
    \/ text # None /\ EditPage(p, None)
    \/ /\ text # None
       /\ \/ \E n \in 1 .. Len(text) : EditPage(p, Without(text, n))
          \/ \E n \in 1 .. Len(text) + 1, c \in Codes :
               Len(text) < MaxBlocks /\ EditPage(p, With(text, n, Block(c)))
          \/ \E n \in 1 .. Len(text), c \in Codes :
               c # text[n].code
               /\ EditPage(p, [text EXCEPT ![n].code = c, ![n].had = @ \cup {c}])

DocsInit ==
    /\ pages = [p \in Pages |-> <<>>] /\ files = Example(<<>>)
    /\ gen = None /\ cap = None /\ edits = 0

DocsNext ==
    \/ \E paths \in SUBSET Pages : GenTests(paths) \/ Capture(paths)
    \/ WriteMain \/ (\E id \in Ids : WriteBlock(id) \/ RemoveFile(id)) \/ GenEnds
    \/ (\E p \in Pages : OpenPage(p)) \/ RunBlock \/ ClosePage \/ CaptureEnds
    \/ Killed
    \/ \E p \in Pages : EditBlocks(p)

-----------------------------------------------------------------------------
\* What is recorded under a block is what that block printed, with the code it
\* has or had, through blocks added and taken out before it, an example that
\* was generated in part or for other pages, and edits while it is captured
\* (docs.rs: current_capture, "a stale example would run another block's
\* code").
CapturedOwn ==
    \A p \in Exist : \A n \in 1 .. Len(pages[p]) :
        pages[p][n].out \in pages[p][n].had \cup {None}
=============================================================================
