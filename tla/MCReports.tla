------------------------------- MODULE MCReports -------------------------------
(* The components of Reports on small instances:                              *)
(*   report  two events before a health report: status --refresh, health      *)
(*           check without probes, and one with everything                    *)
(*   relay   two health snapshots by two writers, two clocks                  *)
(*   estate  two hosts that share a NAS and start with the same estate file;  *)
(*           then the owner of the NAS changes on one, or the enforcement     *)
(*   pages   two threads of the dashboard, two polls of the four pages        *)
EXTENDS Reports, Sequences, TLC

CONSTANTS r1, r2, m1, m2, mac, mini, boot, cloud, nas, vault

MCDeclared == <<m1, m2>>
Everything == {"fp", "probes", "imports", "domains", "walk"}
MCHealthRequests ==
  [profile : {{"quick", "fp", "probes", "refresh"}, {"quick", "fp"}}, fault : {"none"}]
  \cup [profile : {Everything}, fault : {"none", "freshness", "imports", "attach", "fleet", "hdiutil"}
                                        \cup (Everything \ {"imports"})]

(* The estate: the NAS belongs to mini and takes replicas of mac below        *)
(* "mirror"; a disk of mini is mounted inside it, and the cloud drive of mac  *)
(* lies inside its boot disk.  Both hosts reach the NAS under "mnt" as well.  *)
Nas == <<"Volumes", "nas">>
Vault == <<"Volumes", "nas", "vault">>
Users == <<"Users">>
Box == <<"Users", "box">>
Mnt == <<"mnt">>
MCMounted == mac :> (<<>> :> boot @@ Box :> cloud @@ Nas :> nas @@ Mnt :> nas @@ Vault :> vault)
             @@ mini :> (<<>> :> boot @@ <<"Data">> :> nas @@ Mnt :> nas @@ <<"Vault">> :> vault)
Mount(path, prefixes, regex, access) ==
  [path |-> path, prefixes |-> prefixes, regex |-> regex, access |-> access, scan |-> TRUE]
Volume(owner, plan, aliases, grants, mounts) ==
  [owner |-> owner, plan |-> plan, scan |-> TRUE, aliases |-> aliases, grants |-> grants, mounts |-> mounts]
Estate(enforce, owner, macAccess, miniAccess) ==
  [enforce |-> enforce, hosts |-> {mac, mini}, pinned |-> mac :> "db1" @@ mini :> NoEstate,
   volumes |->
     boot :> Volume(mac, "full", {}, {}, mac :> Mount(<<>>, {Users}, {}, "rw"))
     @@ cloud :> Volume(mac, "source-only", {}, {}, mac :> Mount(Box, {}, {Append(Box, "f")}, "rw"))
     @@ nas :> Volume(owner, "full", {Mnt}, {[host |-> mac, prefix |-> <<"mirror">>]},
                      mac :> Mount(Nas, {}, {}, macAccess) @@ mini :> Mount(<<"Data">>, {}, {}, miniAccess))
     @@ vault :> Volume(mini, "nas-manifest", {}, {}, mac :> Mount(Vault, {}, {}, "ro")
                                                        @@ mini :> Mount(<<"Vault">>, {}, {}, "rw"))]
MCEstates == {Estate(TRUE, mini, "ro", "rw"), Estate(TRUE, mac, "rw", "ro"),
              Estate(FALSE, mini, "ro", "rw"), Estate(TRUE, mini, "rw", "rw")}
MCVolumes == <<boot, cloud, nas, vault>>
MCHostOf == [p \in {"mac server", "mini cli"} |-> IF p = "mac server" THEN mac ELSE mini]
MCDatabase == mac :> "db1" @@ mini :> "db2"
Ask(action, path) == [action |-> action, path |-> path]
OnNas == Append(Nas, "f")
InUsers == Append(Users, "f")
OnData == <<"Data", "f">>
Cmd(kind, items) == [kind |-> kind, items |-> items]
MCCommands ==
  {Cmd("plan", <<{Ask("stash", InUsers), Ask("stash", OnNas)}, {Ask("retire", InUsers)}>>),
   Cmd("plan", <<{Ask("retire", OnData)}, {Ask("nas_manifest", <<"Vault", "f">>)}>>),
   Cmd("apply", <<{Ask("retire", Append(Vault, "f"))}, {Ask("retire", OnNas)}>>),
   Cmd("apply", <<{Ask("promote-source", Append(Box, "f")), Ask("promote-destination", OnNas)}>>),
   Cmd("finalize", <<{Ask("stash-finalize", OnData)}, {Ask("stash-finalize", OnNas)}>>),
   Cmd("restore", <<{Ask("stash-restore", InUsers), Ask("stash-restore", OnNas)}>>),
   Cmd("scan", <<{Ask("scan", Nas)}>>),
   Cmd("replicate", <<{Ask("replicate-destination", NoEstate)},
                      {Ask("replicate-destination", Nas \o <<"mirror", "f">>)},
                      {Ask("replicate-destination", OnNas)}>>),
   Cmd("archive", <<{Ask("archive-destination", OnNas)}>>)}

(* What the dashboard may start with: all well, or one thing that is not.     *)
Well == [audit |-> TRUE, roots |-> (r1 :> "fresh" @@ r2 :> "never"), errors |-> FALSE,
         runs |-> [replicate |-> "ok", archive |-> "never"], cloud |-> "ready"]
MCFacts == {[Well EXCEPT !.cloud = "not ready"], [Well EXCEPT !.errors = TRUE],
            [Well EXCEPT !.roots[r1] = "old", !.cloud = "raises"]}

Poll(route, quick, fp) == [route |-> route, quick |-> quick, fp |-> fp]
MCPolls == {Poll("html", TRUE, FALSE), Poll("status", TRUE, FALSE), Poll("health", TRUE, FALSE),
            Poll("health", FALSE, TRUE), Poll("fleet", TRUE, FALSE)}
=============================================================================
