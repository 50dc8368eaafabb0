------------------------------ MODULE RepoMeta ------------------------------
(***************************************************************************)
(* The description of a repository in a shard: what UnmarshalJSON derives  *)
(* from its RawConfig when the shard is opened, and what MergeMutable      *)
(* changes of it when only the options changed (api.go).  A RawConfig is a *)
(* function from its keys to numbers (text that is no number parses as 0), *)
(* noConfig says that the map is nil; a date is in months since 1970.      *)
(***************************************************************************)
EXTENDS Integers, FiniteSets

MaxUint16 == 65535

\* Reading a key that a RawConfig does not have gives the empty value.
ConfigValue(config, k) == IF k \in DOMAIN config THEN config[k] ELSE 0

\* monthsSince1970 of a date given in months.
monthsSince1970(months) ==
  CASE months < 0 -> 0
    [] months > MaxUint16 -> MaxUint16
    [] OTHER -> months

\* The commit date decides the rank when the key latestCommitDate is there,
\* else the priority does, unless the shard has a rank.
UnmarshalJSON(r) ==
  LET config == r.RawConfig
      id == IF "repoid" \in DOMAIN config THEN config["repoid"] ELSE r.ID
      tenant == IF "tenantID" \in DOMAIN config THEN config["tenantID"] ELSE r.TenantID
      priority == IF "latestCommitDate" \notin DOMAIN config /\ "priority" \in DOMAIN config
                  THEN config["priority"] ELSE r.priority
      rank == CASE "latestCommitDate" \in DOMAIN config -> monthsSince1970(r.LatestCommitDate)
                [] /\ "latestCommitDate" \notin DOMAIN config /\ "priority" \in DOMAIN config
                   /\ r.Rank = 0 /\ priority > 0 -> (priority * MaxUint16) \div (5000 + priority)
                [] OTHER -> r.Rank
  IN [r EXCEPT !.ID = id, !.TenantID = tenant, !.priority = priority, !.Rank = rank]

Immutable == {"ID", "Name", "Branches"}
Replaced == {"URL", "CommitURLTemplate", "FileURLTemplate", "LineFragmentTemplate"}

\* MergeMutable(r, x): whether x may be merged into r, the result, and
\* whether it differs.  No key is ever removed from a RawConfig, and a key
\* set to the empty value is not stored; name and id are in r already.
MergeMutable(r, x) ==
  LET keys == DOMAIN x.RawConfig \ {"name", "id"}
      changed == {k \in keys : ConfigValue(r.RawConfig, k) # x.RawConfig[k]}
      config == [k \in DOMAIN r.RawConfig \cup changed |->
                   IF k \in changed THEN x.RawConfig[k] ELSE r.RawConfig[k]]
      merged == [f \in DOMAIN r |-> CASE f = "RawConfig" -> config
                                      [] f = "noConfig" -> r.noConfig /\ keys = {}
                                      [] f \in Replaced -> x[f]
                                      [] OTHER -> r[f]]
  IN IF \E f \in Immutable : r[f] # x[f]
     THEN [err |-> TRUE, mutated |-> FALSE, repo |-> r]
     ELSE [err |-> FALSE, mutated |-> merged # r, repo |-> merged]

-----------------------------------------------------------------------------
\* After a merge the shard agrees with the options on everything a search
\* or a link uses, has lost nothing, and a second merge changes nothing; a
\* merge that would need a new index leaves the description alone.
MergeMutableTrue(r, x) ==
  LET m == MergeMutable(r, x)
      again == MergeMutable(m.repo, x)
  IN IF m.err THEN m.repo = r /\ ~m.mutated
     ELSE /\ \A f \in Replaced \cup Immutable : m.repo[f] = x[f]
          /\ \A k \in DOMAIN x.RawConfig \ {"name", "id"} : ConfigValue(m.repo.RawConfig, k) = x.RawConfig[k]
          /\ \A k \in DOMAIN r.RawConfig : k \notin DOMAIN x.RawConfig => m.repo.RawConfig[k] = r.RawConfig[k]
          /\ ~again.err /\ ~again.mutated /\ again.repo = m.repo

\* A rank fits in 16 bits, does not change when the description is written
\* (without the unexported priority) and read again, and orders repositories as their dates or priorities do.
RankOfTrue(r, s) ==
  LET a == UnmarshalJSON(r)
      b == UnmarshalJSON(s)
      Keys(x) == DOMAIN x.RawConfig
  IN /\ a.Rank \in 0..MaxUint16
     /\ UnmarshalJSON([a EXCEPT !.priority = 0]) = a
     /\ ("latestCommitDate" \in Keys(r) \cap Keys(s) /\ r.LatestCommitDate <= s.LatestCommitDate) => a.Rank <= b.Rank
     /\ (/\ "latestCommitDate" \notin Keys(r) \cup Keys(s) /\ "priority" \in Keys(r) \cap Keys(s)
         /\ r.Rank = 0 /\ s.Rank = 0 /\ r.RawConfig["priority"] <= s.RawConfig["priority"]) => a.Rank <= b.Rank
=============================================================================
