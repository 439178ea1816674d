----------------------------- MODULE MCTreeWalk -----------------------------
(***************************************************************************)
(* TreeWalk on small trees: a root, two directories below it or one below  *)
(* the other, two files anywhere, and a link.  Any of them may have an     *)
(* excluded name, and any may fail to be read.                             *)
(***************************************************************************)
EXTENDS TreeWalk

MCEntry == {"root", "dir", "sub", "f", "g", "link"}

\* The directory that each entry is in.
MCParents ==
  {p \in [MCEntry \ {"root"} -> {"root", "dir", "sub"}] :
     p["dir"] = "root" /\ p["sub"] # "sub" /\ p["link"] = p["sub"]}

MCAbove(p) ==
  LET parents(S) == {p[e] : e \in S \ {"root"}}
  IN [e \in MCEntry |-> parents({e}) \cup parents(parents({e})) \cup parents(parents(parents({e})))]

MCKind ==
  [e \in MCEntry |-> CASE e \in {"root", "dir", "sub"} -> "dir"
                       [] e \in {"f", "g"} -> "file"
                       [] e = "link" -> "link"]

MCTrees ==
  {[above |-> MCAbove(p), kind |-> MCKind, excluded |-> x, broken |-> b] :
     p \in MCParents,
     x \in {{}, {"sub"}, {"sub", "f"}, {"root"}},
     b \in {{}, {"dir"}, {"dir", "g"}, {"root"}}}
=============================================================================
