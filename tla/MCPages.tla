------------------------------- MODULE MCPages -------------------------------
(* Instances of Pages for TLC: which requests run at the same time.        *)
EXTENDS Pages, TLC

CONSTANTS w1, w2, w3, w4

Four(a, b, c, d) == w1 :> a @@ w2 :> b @@ w3 :> c @@ w4 :> d

(* Simultaneous views; first comments; every way to set a title, with and  *)
(* without a deletion.                                                     *)
NoRequest == Four("none", "none", "none", "none")
Together == {NoRequest,
             Four("view", "view", "view", "none"),
             Four("view", "comment", "comment", "none"),
             Four("comment", "comment", "comment", "none"),
             Four("view", "auto", "fetch", "delete"),
             Four("view", "auto", "edit", "none"),
             Four("none", "auto", "edit", "delete")}

CommentsDelete == {Four("delete", "comment", "comment", "none")}
=============================================================================
