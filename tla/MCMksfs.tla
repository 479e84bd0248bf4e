------------------------------ MODULE MCMksfs ------------------------------
EXTENDS SfsSync

K(n, r) == [name |-> n, real |-> r]

(* Trees with nested directories, a file and a symbolic link with two      *)
(* names each, a file that needs the indirect block, one too large for the *)
(* kernel, one too large for mksfs, and odd entries.                       *)
MCHosts ==
  {[root |-> "r", type |-> T, blocks |-> B,
    kids |-> [d \in {"r", "d", "e"} |->
                CASE d = "r" -> top [] d = "d" -> sub [] d = "e" -> <<K("a", "g")>>]] :
     top \in {<<K("a", "f"), K("sub", "d")>>, <<K("l", "s"), K("sub", "d"), K(".x", "f"), K("m", "s")>>,
              <<K("long", "g"), K("p", "o"), K("b", "h")>>},
     sub \in {<<>>, <<K("b", "f"), K("sub", "e")>>},
     T \in {[x \in {"r", "d", "e", "f", "g", "h", "s", "o"} |->
               CASE x \in {"r", "d", "e"} -> "dir" [] x = "s" -> "link"
                 [] x = "o" -> "other" [] OTHER -> "file"]},
     B \in {[f |-> 3, g |-> 0, h |-> n, s |-> 1, o |-> 0] : n \in {4, 10, 11}}}

MCCut == [n \in {".", "..", "a", "b", "l", "m", "p", "sub", "long"} |-> IF n = "long" THEN "lon" ELSE n]

(* ImageOK is about the image as mksfs left it.                            *)
ImageOKAtFirst == count.boots = 0 => ImageOK
============================================================================
