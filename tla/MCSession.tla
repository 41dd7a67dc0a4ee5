------------------------------- MODULE MCSession -------------------------------
(* Two records of one npub, as an imported nsec leaves them.                *)
EXTENDS Session, TLC

CONSTANTS n1, i1, i2, d1, d2, k1, k2, on, off, films

MCNpubOf == i1 :> n1 @@ i2 :> n1
MCNodeOf == i1 :> d1 @@ i2 :> d2
MCKeyOf == i1 :> k1 @@ i2 :> k2

MCSavable == {IdentityPath, PublishedPath(films), ShareSettingsPath(films)}
=============================================================================
