------------------------------ MODULE MCUploads ------------------------------
(* Instances of Uploads for TLC: requests for images of two kinds,         *)
(* of a small and a large file and of one that lies about its size.        *)
EXTENDS Uploads

File(t, d, s, a) == [type |-> t, declared |-> d, size |-> s, admin |-> a]
Gifts == {File("jpg", 1, 1, FALSE), File("png", 1, 1, TRUE), File("jpg", 0, 2, FALSE)}
AllModes == {m \in Mode : m.del => m.upgit}
=============================================================================
