---------------------------- MODULE MCBuildStore ----------------------------
(* Small instances of BuildStore.  A tree has two parts, each of two        *)
(* contents: `src', which both the key and dep-info name, and `doc', a      *)
(* Markdown file pulled in by include_str!, which only dep-info names       *)
(* (binstore.rs: is_markdown).                                              *)
EXTENDS BuildStoreProofs, TLC

CONSTANTS p1, p2, src, doc, a, b

(* every tree builds an executable of a size of its own *)
MCSizes == [t \in Trees |-> t]

(* Invocations are interchangeable, and so are the contents; every property  *)
(* checked here is a safety property.                                        *)
MCSymmetry == Permutations({p1, p2}) \cup Permutations({a, b})
=============================================================================
