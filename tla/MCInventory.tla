------------------------------ MODULE MCInventory ------------------------------
(* Five components that share no state here, each in behaviours of its own:   *)
(*   log     the audit chain, with one connection that archives               *)
(*   scan    two subtrees with a file each and a loose file, edited once or   *)
(*           met by a fault; one subtree's file and the loose file, edited    *)
(*           twice, or once and met by a fault; and with two commands at once *)
(*           one subtree's file, edited once and met by a fault, or with the  *)
(*           loose file and one edit                                          *)
(*   members two containers of different kinds, two versions, two runs        *)
(*   watch   two watched paths, one path of each kind that is skipped         *)
(*   enrich  an import and a dry run of five rows, two classify runs of       *)
(*           different policies, two embed runs                               *)
EXTENDS Inventory, MCAuditChain, TLC

CONSTANTS a, b, l, A, B, R, zip, rar, m1, m2, rules, again

MCDirOf == (a :> A) @@ (b :> B) @@ (l :> R)
MCSizeOf == [c \in 0..MaxEdits |-> IF c = 2 THEN 0 ELSE 1]
Begins(files, nedits, nfaults, together) ==
  [files |-> files, edits |-> nedits, faults |-> nfaults, together |-> together]
MCStarts == {Begins({a, b, l}, 1, 0, FALSE), Begins({a, b, l}, 0, 1, FALSE),
             Begins({a, l}, 1, 1, FALSE), Begins({a, l}, 2, 0, FALSE),
             Begins({a}, 1, 1, TRUE), Begins({a, l}, 1, 0, TRUE)}

MCKind == zip :> "native" @@ rar :> "unar"
MCVersion == 1..2
MCMembers == <<(m1 :> 1 @@ m2 :> 2), (m1 :> 3 @@ m2 :> Nothing)>>
MCFirst == zip :> 1 @@ rar :> 1

OldRow(path, kind, content, domain) ==
  [path |-> path, kind |-> kind, content |-> content, domain |-> domain]
MCOldRows ==
  <<OldRow("p", "member", "x", "old"), OldRow("p", "member", "y", Nothing),
    OldRow("q", "noise", "y", Nothing), OldRow("r", "file", "y", Nothing),
    OldRow("s", "file", "x", Nothing)>>
MCPolicy == [c \in {rules, again} |->
               [domain |-> "new", classification |-> IF c = again THEN Nothing ELSE "class"]]
=============================================================================
