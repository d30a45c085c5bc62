----------------------------- MODULE DnsUpdater -----------------------------
(***************************************************************************)
(* feed-dns (dns/dns_updater.go, dns/adapter, dns/r53): Update compares    *)
(* the hosted zone with the ingress entries and sends Route 53 batches of  *)
(* changes.  Other people edit the zone and the ingresses, calls fail, the *)
(* program is killed and started again.                                    *)
(*                                                                         *)
(* A scheme that has a front end also stands for its DNS name.  Only the   *)
(* records that are of the adapter's type are modelled: aliases, whose TTL *)
(* plays no role, or CNAMEs.                                               *)
(***************************************************************************)
EXTENDS Naturals, FiniteSets, FiniteSetsExt

CONSTANTS
  Hosts,            \* hosts of ingress entries
  Domain,           \* those that are in the domain of the zone
  Frontends,        \* schemes in schemeToFrontendMap
  Unserved,         \* other schemes an entry may ask for
  Static,           \* static hostname adapter, or AWS adapter
  TTLs,             \* values of the flag cname-ttl; one for aliases
  BatchSize,        \* maxRecordChanges
  MaxEdits,         \* bound: edits of the zone and of the ingresses
  MaxZoneFailures,  \* bound: calls that fail
  MaxRestarts       \* bound: times the program is killed

ASSUME DnsAssumption ==
  /\ Domain \subseteq Hosts /\ IsFiniteSet(Hosts)
  /\ Static \in BOOLEAN
  /\ {"elsewhere", "none"} \cap (Frontends \cup Unserved) = {}
  /\ BatchSize \in Nat \ {0}
  /\ MaxEdits \in Nat /\ MaxZoneFailures \in Nat /\ MaxRestarts \in Nat
  /\ ~Static => Cardinality(TTLs) = 1

Schemes  == Frontends \cup Unserved
NoRecord == [to |-> "none"]
Records  == [to : Frontends \cup {"elsewhere"}, ttl : TTLs]
Zones    == [Domain -> Records \cup {NoRecord}]

VARIABLES
  zone,             \* Route 53: the record of each host
  entries,          \* the entries that the controller passes, without their order
  ttl,              \* the configured TTL
  updater,          \* "new", "idle", or "changing" in UpdateRecordSets
  hostToIngress,    \* Update: the scheme of each host
  upserts, deletes, \* Update: changes not sent yet
  edits, zoneFailures, restarts,
  touched,          \* history: somebody edited the zone since GetRecords
  settled           \* history: the last Update returned nil and nothing happened since

dnsUpdateVars == <<hostToIngress, upserts, deletes>>
dnsVars == <<zone, entries, ttl, updater, dnsUpdateVars, edits, zoneFailures, restarts, touched, settled>>

Partial(S, T) == UNION {[D -> T] : D \in SUBSET S}

DnsTypeOK ==
  /\ zone \in Zones
  /\ entries \subseteq Hosts \X Schemes
  /\ ttl \in TTLs
  /\ updater \in {"new", "idle", "changing"}
  /\ hostToIngress \in Partial(Domain, Schemes)
  /\ upserts \subseteq DOMAIN hostToIngress
  /\ deletes \in Partial(Domain, Records)
  /\ edits \in 0..MaxEdits /\ zoneFailures \in 0..MaxZoneFailures /\ restarts \in 0..MaxRestarts
  /\ touched \in BOOLEAN /\ settled \in BOOLEAN

NoChanges == [h \in {} |-> NoRecord]

\* A zone with records of an earlier run and of others.
DnsInit ==
  /\ zone \in Zones
  /\ entries \in SUBSET (Hosts \X Schemes)
  /\ ttl \in TTLs
  /\ updater = "new"
  /\ hostToIngress = NoChanges /\ upserts = {} /\ deletes = NoChanges
  /\ edits = 0 /\ zoneFailures = 0 /\ restarts = 0
  /\ touched = FALSE /\ settled = FALSE

ZoneFails == zoneFailures < MaxZoneFailures /\ zoneFailures' = zoneFailures + 1

-----------------------------------------------------------------------------
(* The pure part of Update.                                                 *)

\* GetRecords: the records of every page of the listing.
GetRecords == zone

\* indexByHost: of the entries in the domain, the first one of each host, in the
\* order of an informer's store, which is any order.
indexByHost(E) ==
  {m \in [{h \in Domain : \E s \in Schemes : <<h, s>> \in E} -> Schemes] :
     \A h \in DOMAIN m : <<h, m[h]>> \in E}

\* IsManaged and determineManagedRecordSets.
Managed(z) == {h \in Domain : z[h].to \in Frontends}

\* CreateChange returns nil: the record is there, and if it is a CNAME its TTL is
\* the one that is configured.
InPlace(r, scheme) == r.to = scheme /\ (Static => r.ttl = ttl)

\* Mutant: the records are indexed by their host only.
UpsertsByHost(z, m) ==
  {h \in DOMAIN m : m[h] \in Frontends /\
     ~(z[h].to \in Frontends /\ (Static => z[h].ttl = ttl))}

\* The hosts to upsert: those of a served scheme that have no such record.
Upserts(z, m) ==
  {h \in DOMAIN m : m[h] \in Frontends /\ ~InPlace(z[h], m[h])}

\* Mutant: records that point elsewhere are not filtered.
DeletesUnfiltered(z, m) ==
  [h \in {g \in Domain : z[g] # NoRecord} \ DOMAIN m |->
     [to |-> z[h].to, ttl |-> IF Static THEN ttl ELSE z[h].ttl]]

\* Mutant: hosts that have an entry are not excepted.
DeletesEvery(z, m) ==
  [h \in Managed(z) |-> [to |-> z[h].to, ttl |-> IF Static THEN ttl ELSE z[h].ttl]]

\* CreateChange("DELETE"): the alias as it was read, or a CNAME with the TTL
\* that is configured.
Deletes(z, m) ==
  [h \in Managed(z) \ DOMAIN m |->
     [to |-> z[h].to, ttl |-> IF Static THEN ttl ELSE z[h].ttl]]

-----------------------------------------------------------------------------
\* Initialise finds the front ends, GetHostedZoneDomain the domain.
Start ==
  /\ updater = "new"
  /\ updater' = "idle"
  /\ UNCHANGED <<zone, entries, ttl, dnsUpdateVars, edits, zoneFailures, restarts, touched, settled>>

\* Mutant: nothing is done for the same hosts as last time.
UpdateIfChanged ==
  \/ /\ updater = "idle"
     /\ \E m \in indexByHost(entries) :
          /\ m # hostToIngress
          /\ hostToIngress' = m
          /\ upserts' = Upserts(GetRecords, m)
          /\ deletes' = Deletes(GetRecords, m)
     /\ updater' = "changing"
     /\ touched' = FALSE /\ settled' = FALSE
     /\ UNCHANGED <<zone, entries, ttl, edits, zoneFailures, restarts>>
  \/ updater = "idle" /\ hostToIngress \in indexByHost(entries) /\ UNCHANGED dnsVars

\* Update up to UpdateRecordSets; a failure of GetRecords changes nothing.
DnsUpdate ==
  /\ updater = "idle"
  /\ \E m \in indexByHost(entries) :
       /\ hostToIngress' = m
       /\ upserts' = Upserts(GetRecords, m)
       /\ deletes' = Deletes(GetRecords, m)
  /\ updater' = "changing"
  /\ touched' = FALSE /\ settled' = FALSE
  /\ UNCHANGED <<zone, entries, ttl, edits, zoneFailures, restarts>>

\* The next range of Partition: upserts, in the order of a map, before deletes.
NextBatch(U, D) ==
  /\ D # {} => U = upserts
  /\ Cardinality(U) + Cardinality(D) =
       Min({BatchSize, Cardinality(upserts) + Cardinality(DOMAIN deletes)})

\* Route 53 (external) applies a batch as a whole, and rejects it if it deletes
\* a record that is not there as given.
Accepted(D) == \A h \in D : zone[h] = deletes[h]

Applied(U, D) ==
  [h \in Domain |-> IF h \in U THEN [to |-> hostToIngress[h], ttl |-> ttl]
                    ELSE IF h \in D THEN NoRecord ELSE zone[h]]

\* ChangeResourceRecordSets for one batch; an error ends Update.  A call that
\* fails may have been applied.
Batch ==
  /\ updater = "changing" /\ (upserts # {} \/ DOMAIN deletes # {})
  /\ \E U \in SUBSET upserts, D \in SUBSET DOMAIN deletes :
       /\ NextBatch(U, D)
       /\ \/ /\ Accepted(D)
             /\ zone' = Applied(U, D)
             /\ upserts' = upserts \ U
             /\ deletes' = [h \in DOMAIN deletes \ D |-> deletes[h]]
             /\ UNCHANGED <<updater, zoneFailures>>
          \/ /\ ~Accepted(D)
             /\ updater' = "idle"
             /\ UNCHANGED <<zone, upserts, deletes, zoneFailures>>
          \/ /\ ZoneFails
             /\ zone' \in {zone} \cup {z \in {Applied(U, D)} : Accepted(D)}
             /\ updater' = "idle"
             /\ UNCHANGED <<upserts, deletes>>
  /\ UNCHANGED <<entries, ttl, hostToIngress, edits, restarts, touched, settled>>

UpdateReturns ==
  /\ updater = "changing" /\ upserts = {} /\ DOMAIN deletes = {}
  /\ updater' = "idle"
  /\ settled' = ~touched
  /\ UNCHANGED <<zone, entries, ttl, dnsUpdateVars, edits, zoneFailures, restarts, touched>>

-----------------------------------------------------------------------------
\* Somebody else writes a record, or an ingress comes or goes.
EditZone ==
  /\ edits < MaxEdits /\ edits' = edits + 1
  /\ \E h \in Domain, r \in Records \cup {NoRecord} :
       r # zone[h] /\ zone' = [zone EXCEPT ![h] = r]
  /\ touched' = TRUE /\ settled' = FALSE
  /\ UNCHANGED <<entries, ttl, updater, dnsUpdateVars, zoneFailures, restarts>>

EditEntries ==
  /\ edits < MaxEdits /\ edits' = edits + 1
  /\ \E e \in Hosts \X Schemes : entries' \in {entries \cup {e}, entries \ {e}} \ {entries}
  /\ UNCHANGED <<zone, ttl, updater, dnsUpdateVars, zoneFailures, restarts, touched, settled>>

\* The program dies at any point and is started again, maybe with another TTL.
Restart ==
  /\ restarts < MaxRestarts /\ restarts' = restarts + 1
  /\ updater' = "new"
  /\ ttl' \in TTLs
  /\ hostToIngress' = NoChanges /\ upserts' = {} /\ deletes' = NoChanges
  /\ settled' = FALSE
  /\ UNCHANGED <<zone, entries, edits, zoneFailures, touched>>

Feed == Start \/ DnsUpdate \/ Batch \/ UpdateReturns
DnsNext == Feed \/ EditZone \/ EditEntries \/ Restart

\* The controller calls Update again at every resync of its informers.
DnsFairness == WF_dnsVars(Feed)

DnsSafetySpec == DnsInit /\ [][DnsNext]_dnsVars
DnsSpec == DnsSafetySpec /\ DnsFairness

-----------------------------------------------------------------------------
\* The zone z is what the entries m ask for.
Agrees(z, m) ==
  /\ \A h \in DOMAIN m : m[h] \in Frontends => InPlace(z[h], m[h])
  /\ Managed(z) \subseteq DOMAIN m

\* A batch never takes away a record of others: one that does not point to a
\* front end, for a host without an entry, stays as it is (README: "Existing
\* records which do not meet these conditions remain untouched"), even if it was
\* edited after GetRecords and however the changes were split into batches.
OthersUntouched ==
  [][Batch => \A h \in Domain \ DOMAIN hostToIngress :
       h \notin Managed(zone) => zone'[h] = zone[h]]_dnsVars

\* A host that has an entry never loses the record it has, whatever batch of the
\* changes is applied or lost.
HostsKeepRecords ==
  [][Batch => \A h \in DOMAIN hostToIngress : zone[h] # NoRecord => zone'[h] # NoRecord]_dnsVars

\* Update that returns nil has made the zone agree with its entries: the batches
\* together are all of the changes, and no change of one undoes another.
SettledAgrees == settled => Agrees(zone, hostToIngress)

\* Failures, edits and restarts in the middle of an update are repaired by a later
\* one: in the end the zone agrees with the entries and keeps agreeing, unless a
\* record that is to be deleted keeps another TTL than the configured one.
EventuallyAgrees ==
  <>[](\A h \in Managed(zone) : zone[h].ttl # ttl => \E s \in Schemes : <<h, s>> \in entries)
    => <>[](\E m \in indexByHost(entries) : Agrees(zone, m))
=============================================================================
