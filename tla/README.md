# A TLA+ model of OpenSAML-C++ 2

OpenSAML is a C++ library for SAML 1.1 and 2.0: it builds and parses the XML of
the standard, finds the metadata of other entities, and sends, receives and
evaluates messages. A process (a Shibboleth service provider, say) links it,
creates a few long-lived plugins from its configuration, and calls them from
many threads. This directory holds TLA+ models of the parts of the library that
keep state between calls, of its XML object model, metadata filters and schema
validators, TLC configurations that check them on small instances, and TLAPS
proofs of what matters most for instances of any size.

Paths below are relative to `src/saml/`. `PROJECT.json` maps each definition to
the lines it was translated from.

- [The system](#the-system): the inventory of components
- [The modules](#the-modules): how they correspond to the code
- [What is checked](#what-is-checked): runs, bounds, fairness
- [What is proved](#what-is-proved)
- [What the code does that its documentation does not say](#disagreements)
- [What is not modelled](#what-is-not-modelled)
- [Plan](#plan)

## The system

### Artifact maps (`binding/ArtifactMap.h`, `binding/impl/ArtifactMap.cpp`)

An artifact is a short random handle sent in place of a message. The sender
keeps the message under the handle until the recipient resolves it, once.

- *State.* Without a StorageService: `m_artMap` from handles to mappings
  (content, relying party, expiration) and `m_expMap`, a multimap from
  expiration times to handles, under the mutex `m_lock`. With one: a record per
  handle in the service, shared by threads and possibly by processes.
- *Operations.* `storeContent`, `retrieveContent`, `getRelyingParty`.
- *Hard behaviour.* Ownership of the XML object moves from caller to map to
  resolver; expired mappings are swept by the next `storeContent`; two indexes
  must agree; `getRelyingParty` does not take the lock; with a StorageService
  nothing is locked across its calls, any call may throw, and a process may die
  between two.
- *Correct means.* A content reaches at most one resolver, before its deadline,
  and only the party it was stored for; index and map agree; nothing stays for
  ever; no object is freed twice or used after it was freed.

### Metadata providers (`saml2/metadata`)

`MetadataProvider` is a lockable, queryable source of entities. A caller locks
it, makes lookups, uses raw pointers to what they return, and unlocks: *the
lock is what keeps the result alive*. Plugins:

- `DynamicMetadataProvider` fetches an entity when it is first asked for. State:
  the index of `AbstractMetadataProvider` (`m_sites`, `m_sources`, groups), the
  credential cache (`m_credentialMap`), the refresh times (`m_cacheMap`), a
  read-write lock. A lookup that fetches gives up the caller's read lock, writes
  and reads again. Hard: other threads run at each lock change; `m_cacheMap` is
  erased and written under the *read* lock; failures and mismatches; durations.
- `ChainingMetadataProvider` searches a sequence of other providers. State: a
  per-thread tracker of the children the thread has locked and of which child
  each returned entity came from. Locking the chain locks nothing; lookups lock
  children and keep them locked. Hard: which child stays locked under the
  first-match and the last-match policy, a child that throws, a search of a child
  that is already locked, threads that hold one child and wait for another.
- `XMLMetadataProvider` loads a file or URL and reloads it in a background
  thread. State: the document offered, its index, feed and validity; the refresh
  interval and a backoff; a backup file with the cache tag of what is in it.
  Hard: readers hold pointers into the tree that is replaced; backup and tag are
  written in several steps and the process may stop between any two; the source
  and the disk fail; the interval must beat the soonest expiry in the tree.
  `FolderMetadataProvider` builds a chain of these; `NullMetadataProvider` is a
  dynamic provider that makes entities up.
- `AbstractMetadataProvider`, `ObservableMetadataProvider`,
  `DiscoverableMetadataProvider`: the index and credential cache, change
  observers, the JSON discovery feed, shared by the plugins by inheritance.
- `MetadataFilter`s and `EntityMatcher`s rewrite or reject a document before it
  is indexed. They are pure, and order matters (removing the last entity of a
  group removes the group).

*Correct means.* What a thread was given is not changed or freed while it holds
its lock; one current entity per entityID; an entity is refreshed before, or
soon after, it expires; an unreachable source is not asked again at once; locks
balance; searches end; the match policy is kept.

### Message evaluation (`binding`, `saml1/binding`, `saml2/binding`)

- *Decoders* turn an HTTP request into a message: parse, check, extract what the
  policy needs, run the rules. The artifact decoders call the sender back.
- `SecurityPolicy` carries what is known of a message (message ID, issue time,
  issuer, issuer metadata, authenticated or not) and the rules in order; it can
  be `reset` and reused. *Rules* (`MessageFlow`, `XMLSigning`, `SimpleSigning`,
  `ClientCertAuth`, `NullSecurity`, conditions, audience, bearer, delegation)
  read and write it. The replay cache is an external storage.
- *Encoders* turn a message into an HTTP response and take it over on success.
- *SOAP clients* send a message, receive one, and run the policy on it.

*Correct means.* A message is called authenticated only for the issuer whose
metadata and keys did it; the same message ID is not accepted twice inside its
lifetime; freshness windows agree between the rule and the replay cache; one
message leaves nothing in the policy for the next; ownership moves exactly when
an encoder succeeds.

### Assertions and profiles (`profile`, `saml1/profile`, `saml2/profile`, `saml2/core`)

Rules and validators over one assertion: conditions with times and clock skew,
audiences, bearer confirmation with recipient, deadline and request ID,
delegation chains; decryption of encrypted assertions through the
cryptographic library. Pure functions of the assertion, the policy and the time.

### XML object model, signature profile, schema validators (`saml1/core`, `saml2/core`, `saml2/metadata`, `signature`)

One C++ class per XML element, with children in schema order, written with
macros; copy, parse and serialise. The signature profile accepts only a
same-document reference with known transforms. Validators check presence of
mandatory children. Children lists and typed accessors must stay consistent.

### Library lifecycle and utilities (`SAMLConfig.cpp`, `util`, `version.cpp`)

Reference-counted `init` and `term` under a lock; construction and destruction
of the artifact map; plugin registries; the common-domain cookie, a bounded list
of names.

### How they interact

A decoder asks the policy's metadata provider (usually a chain of dynamic and
reloading ones) for the issuer, under the provider's lock; rules use that
metadata and the provider's credentials to authenticate; the artifact encoder
stores in the artifact map and the artifact-resolution service retrieves from
it. Providers call observers and filters back. Everything is passed around as
XML objects, which outlive the call that made them and are cloned, written and
read again.

## The modules

| module | models | state |
| --- | --- | --- |
| `OneTimeArtifacts` | what an artifact map promises (abstract) | the stage of each content, its terms, its recipient |
| `ArtifactMappings` | the in-memory map | `m_artMap`, `m_expMap`, ownership and deletions of each content, iterators |
| `ArtifactStorage` | the map over a StorageService | records, running calls with what they have read |
| `ProviderLock` | the lock protocol of any metadata provider (abstract) | lock and stage of each thread, the metadata |
| `DynamicMetadataProvider` | the dynamic provider with the index and the credential cache it inherits | `m_sites`, `m_sources`, `m_cacheMap`, lock, program counters, credentials |
| `ChainingMetadataProvider` | the chain and its trackers | read locks per thread and child, trackers, searches |
| `MetadataTree` | a metadata document: filters, matchers, the index with its validities, the feed (pure) | |
| `XMLMetadataProvider` | the reloading provider over a remote source with a backup | what is offered, the loading thread, the files, delays, readers |
| `PolicyRules` | what one message does to a `SecurityPolicy` object, and what each decoder takes (pure) | |
| `SecurityPolicy` | threads that decode, query and resolve artifacts, each with a policy, over one replay cache | policies, exchanges, layers to evaluate, the cache |
| `XMLElementClasses` | the vocabulary of an XML object class: slots, fences, copies, tests, attributes (pure) | |
| `SAML2Metadata`, `SAML2Assertions`, `SAML2Protocols`, `SAML1Assertions`, `SAML1Protocols` | each class of the five families, and its schema validator (pure) | |
| `SAML1Schemas`, `SAML2Schemas` | the content models of `schemas/*.xsd` (pure) | |
| `SAMLLibrary`, `XMLElement` | the families together; one object in the hands of a caller | its class, children and attributes |
| `MC_*` | instances for TLC | |
| `*_proofs` | TLAPS proofs (`MetadataTree_proofs` and `XMLElement_proofs` also hold those about trees and about sequences of cells) | |

In the specifications a *decision* of the code (a comparison, what is erased,
which lock is taken) is an operator of its own. Next to it stand variants with a
suffix, what a slip would have made of it, which the specifications do not use;
`PROJECT.json` (`mutants`) says which property catches which variant.

### ArtifactMappings

`storeContent` and `retrieveContent` hold the mutex throughout, so each call is
one step: `StoreContent` (with its sweep: `Stale`, `Gone`, `Victims`), and one
action per way `retrieveContent` ends (`RetrieveUnauthorized`,
`RetrieveExpired`, `RetrieveContent`). `getRelyingParty` takes no lock and is
two steps, `FindRelyingParty` and `ReadRelyingParty`, with an iterator
(`cursor`) that erasure invalidates. C++ ownership is state: `owner[c]` says who
owns a content, `deletes[c]` how often `delete` ran on it, so the destructor of
`Mapping` and the sweep are visible. A multimap entry is a set element tagged
with the content that made it, which keeps equal entries apart. Handles are
random in the code; those in `Reusable` may occur twice, and only what is said
of the sweep (`IndexFollowsMap`, `StoreFreesOnlyExpired`) is about the others.

### ArtifactStorage

Each storage call is a step (`ReadText`, `ReadNothing`, `DeleteText`,
`StoreContent`), each may fail (`StorageFails`), threads of one or several
processes run in between, and any set of threads may die while the records stay
(`Crash`). `outcome` records who was given a content or was refused it. An
expired record is not shown; that is the storage service's promise.

### DynamicMetadataProvider

`pc` has one value per point where another thread may run: `idle`, `session`
(the caller's own code), `lookup` (before the index and `m_cacheMap` are read),
`check` (an iterator into `m_cacheMap` is held), `resolve` (the fetch), `upgrade`
(no lock held), `install` (write lock), `again`. The outcomes of a fetch are
actions: `ResolveSucceeds` with any of `Documents`, `ResolveMismatch`,
`ResolveFails`; an observer may throw while the entity is installed
(`ObserverThrows`). A document is a lifetime and a `cacheDuration`; URLs, parsing
and filters are one nondeterministic outcome. An iterator erased by another
reader reads as anything (`dangling`). `lastTry` is history. Time is in units of
`Grace`.

### ChainingMetadataProvider

A search is one action per lock operation of `getEntityDescriptor` and
`getEntitiesDescriptor`: `LockNext`, the answer (`EndSearch` when the policy says
the match is final, `GoOn` otherwise), `Return`, `ChildThrows`. The four
`Child...` actions are what a dynamic child does with the caller's lock while it
is asked; they are the `GiveUp`, `Write`, `Change` and `Enter` steps of
`ProviderLock`, which `DynamicMetadataProvider` is shown to implement, so the
chain is checked against children that do what its real children do.
`ObserverThrows` is its `Abandon`: the child answers with the write lock still
held, and the chain unlocks, keeps or waits for that lock as if it were a read
lock (`holds` counts both, `writer` says which it is); an exception may also
leave a child that is writing. `answers`, `given` and `lost` are history: what the children said, what the
thread still uses, and the locks an exception left behind.

### MetadataTree and XMLMetadataProvider

A version of the file is a tree of groups and entities with names, validities,
roles, tags and signatures; `above` lists the groups that `getParent()` leads to.
`doFilters` runs the filters the code has on it, one after the other, each as its
`doFilter` rewrites the tree: what a filter removes takes its subtree away
(`Prune`), what is left empty may go too (`Emptied`), one filter adds tags and
others drop roles (`Edit`) that the next may look for. `Rejects` is the exception
a filter throws; `Filterable` says that none of a chain does. `Admits` is
what each filter thinks of an entity by itself, and `AdmittedBy` all of them,
without any of the trees in between: what the chain should come to. `IndexOf` is
`indexGroup` and `indexEntity` with the validity handed down (`Fences`) and up
(`Soonest`); `FeedOf` is what the discovery feed lists, displays and tags.

The loading thread is one action per step that something else can come between:
`LoadNew`, `LoadFails` and `NotModified` (the answer of the source), `RemoveOld`,
`RenameNew` and `preserveCacheTag` (the commit of the backup, whose order is
`NextToCommit`), `LoadBackup` and `LoadBackupFails`, `Install` and
`ObserverThrows` (the swap under the write lock), and `Wake`. The source
publishes versions and fails (`Publish`, `SourceChanges`), a copy may fail or
be cut short and a rename fail (`Faults`), and the process may end and start
again on the same disk at any point (`Crash`). `settled` ends all of that, for the
liveness property. A reader locks, unlocks and resolves credentials.

Modelled is a remote source with a backup and a reload interval. The base class
`ReloadableXMLFile` belongs to another library; the module's header says what is
taken from it.

### PolicyRules and SecurityPolicy

An exchange is a decoded request, an artifact request that is resolved over
SOAP, or a SOAP query. It comes down to layers (SOAP envelope, message, artifact
payload) that the policy evaluates: `BeginLayer` extracts the details and may
throw, then one action per rule in the order of `Rules` (`MessageFlowRule`,
`SimpleSigningRule`, `XMLSigningRule`, `ClientCertAuthRule`), then `EndLayer`,
which resets the message only. `Query` and `Resolve` begin with the full
reset of `SOAPClient::send`; the peer may not answer, another server may, and an
answer may be for another request. The artifacts of a request are checked against
the replay cache one by one (`CheckArtifact`), and those checked before one is
refused stay spent; an artifact is spent for the SAML 1 and the SAML 2 decoder
apart (`ArtifactKeys`). A decoder looks for a message of its own version of SAML and
passes over another one (`Understood`). `ErrorStatus` is the look of `receiveSAML`
at the Status of a reply, before the payload is evaluated; `Finish` is the check
of the destination that comes after the rules. Between two exchanges a caller takes a new
policy (`Renew`) or resets the old one (`Reset`), which keeps `m_ts`, the time of
its first use.

A peer stands for its entityID, its metadata role and its keys; a credential is
the peer whose key it is, so "the trust engine verified it against the role" is
equality. The replay cache is a set of records that are shown until they expire,
as in `ArtifactStorage`.

### The XML object model

The classes of `saml1/core`, `saml2/core` and `saml2/metadata` are written with
macros around one list of children: a slot for each singleton child, and for
each typed list a place its members are inserted before. So a class is data: its
slots, the fences of its lists, the order in which its copy constructor copies,
the tests `processChildElement` applies in order, its attributes; inherited
parts are combined as the base classes are. `XMLElementClasses` is the
vocabulary, with what the macros do; each family module has one definition per
class with the name of the C++ class, and one per schema validator, a predicate
on the children and attributes. `SAMLLibrary` joins the families into what
`SAMLConfig` registers (`Registered`), which `MC_XMLElement` gives to the constant
`Library` of `XMLElement`. `XMLElement` takes one object of any registered class,
empty or read from the smallest valid document of its schema, through the
setters and lists of its interface. `Serialize`, `Unmarshall` and `Clone` are
the three ways it leaves the caller's hands. The values of attributes and of text
are only present or absent.

## What is checked

| run | question | distinct states |
| --- | --- | --- |
| `ArtifactMappings` | do index, ownership and terms agree (`IInv`, the inductive invariant of the proofs), and is the map a `OneTimeArtifacts`, also when a handle is stored again? | 227 075 |
| `ArtifactMappings_deletes` | is a content deleted once? (no) | |
| `ArtifactStorage` | does a content reach its party only, and is it gone afterwards? | 335 915 |
| `DynamicMetadataProvider` | index, refresh, throttling, credentials, and the lock protocol | 749 834 |
| `DynamicMetadataProvider_progress` | do lookups end? | 65 112 |
| `DynamicMetadataProvider_stale` | is what a lookup for valid metadata returns valid? (no) | |
| `ChainingMetadataProvider` | lock balance, what was given stays locked but for one window, the match policy | 2 456 621 |
| `ChainingMetadataProvider_progress` | do searches end? | 12 368 |
| `XMLMetadataProvider` | is exactly what every filter admits offered, for as long as it is valid; is the backup good, the interval short enough, and the source served in the end? | 395 360 |
| `XMLMetadataProvider_roles` | does a filter keep the roles it is told to retain? (no) | |
| `SecurityPolicy` | do the rules judge the issuer by its own metadata, is authentication that of the issuer and of this exchange, are replays stopped? | 1 296 788 |
| `XMLElement` | is every object written in schema order, cloned and read back without loss, and judged by its validator as by the schema? | 38 782 |

### Bounds, and why they are enough

- `MaxTime` bounds every clock. Time matters only through the comparisons with
  an expiration or refresh time. For artifacts the clock runs past the time to
  live, so every case is met: before, at and after; with `TTL = 2` and
  `MaxTime = 4` two mappings of different age expire apart. For the dynamic
  provider it runs past the life of the short-lived document and its refresh
  time, and past the retry time of a failed fetch; the long-lived document
  stays current throughout, as it should.
- Artifact maps: two handles and three contents let a handle expire while
  another lives and a third content sweeps; two parties and "no party" are all
  the code tells apart. The storage needs two threads to race and two handles
  so that one record replaces another between a read and a deletion.
  One of the two handles of the map in memory may be stored again while it is
  mapped: the content it stood for leaves the map with no resolver, as the abstract
  map allows.
- Dynamic provider: two threads are what a lock upgrade needs to go wrong; one
  entityID, since different entityIDs share nothing but the lock and the
  credential cache, which the two threads exercise anyway. The documents are one
  for ever, one that expires inside the horizon, one rejected as about to expire.
- Chain: two threads and two children, both of which may write; a match, a better
  match and no match are all a search distinguishes. `MaxThrows = 1` bounds
  the locks exceptions leave behind, so that `lost` is finite. Both policies are in
  one run. Its searches are for a group, which is a match without a role, and
  for a role; an entity without a role takes the steps of the one or the other,
  and is searched for in the progress run.
- Reloading provider: a federation with nested groups, one of them nameless and
  one empty; three versions, so that a version is published while an older one
  is being committed and a third after it; the second has validities that end
  inside the horizon and a bad signature, the third is a single entity and has
  its own. Six filters, of which one adds the tag another looks for. `MaxTime` 3
  is the maximum delay. `Wake` does not wait for the due time (a wait on a condition
  may end early), so liveness does not depend on the clock. `MaxBackoff` 3 is where the maximum delay caps
  the interval anyway.
- Security policy: two threads, for copies of one message in flight together;
  one known peer and one stranger, since rules look at one role at a time; ten
  sets of requests and replies, which between them meet every decoder and every
  way an issuer, signer, certificate, destination or server can differ from what
  is expected. With a skew of 1 and the clock going to 3, a message issued at 1
  is fresh, then in its last second, then stale, and one issued at 3 is too early.
- XML objects: all 5 families, each class from an empty object and from its
  smallest valid document, any three changes. Three are what a misplaced list
  takes: two neighbours and one child between them, or two to fill and one to
  replace.
- Symmetry is used on sets of interchangeable threads, handles, contents and
  parties, in runs without liveness properties only. The children of a chain
  have an order and are not symmetric.
- `CHECK_DEADLOCK FALSE`: the artifact models stop when the clock and the
  contents are used up, an XML object after its changes, and a policy is at rest
  when nothing is delivered to it any more. The chain's main run really can deadlock (see
  [below](#disagreements)); its progress run checks for deadlock.

### Fairness

`DynamicMetadataProvider`: weak fairness of a thread's own steps (threads are
scheduled; a fetch has a transport timeout, so it ends); strong fairness of
taking a lock and of `Unlock`. A read-write lock is free again and again rather
than for good, so weak fairness would allow a thread to be passed over for
ever; the locks of the platform (POSIX or the library's own) hand the lock to a
waiter eventually. `Unlock` is strong because a thread may start another lookup
instead: callers are assumed to finish. `LookupsEnd` then says that the start-over
after each installation does not go round for ever. It is checked with caching
durations of zero, the worst case; the clock stops at its bound, so what is
excluded is going round within one second, which is what the code's `now`
comparison has to prevent.

`ChainingMetadataProvider`: the same choice; a child that is asked answers,
which is what `LookupsEnd` shows of the only kind that may wait.

`XMLMetadataProvider`: time passes and the loading thread is scheduled.
`WF_pc(Leaves(step))` says that the thread stays at no step it can always leave,
which is weak fairness of the thread's actions there; the wait for the write
lock (`Install`, `ObserverThrows`) is strong and readers unlock, as above.
Nothing is assumed of the source, the disk or the process but that they settle,
and that is the premise of `SourceServed`.

## What is proved

Every theorem holds for all values of the constants that satisfy the named
assumptions; `*_proofs.tla` hold them.

| module | theorem | property |
| --- | --- | --- |
| `ArtifactMappings_proofs` | `TypeCorrect`, `InvariantCorrect`, `FreesOnlyExpired`, `StoringSweeps`, `Implements` | `TypeOK`, `IInv`, `StoreFreesOnlyExpired`, `StoreSweeps`, `OneTimeSpec` |
| `ArtifactStorage_proofs` | `TypeCorrect`, `DeliveredRight`, `GoneForGood` | `TypeOK`, `DeliveredAsStored`, `EndedIsGone` |
| `DynamicMetadataProvider_proofs` | `TypeCorrect`, `IndexUnambiguous`, `RefreshTimely`, `CredentialsSafe`, `FailuresLeftAlone`, `KeepsLockProtocol` | `TypeOK`, `OneEntityPerID`, `RefreshedInTime`, `CredentialsFreedUnlocked`, `FailuresThrottled`, `ProviderLockSpec` |
| `ChainingMetadataProvider_proofs` | `TypeCorrect`, `LocksBalance`, `GivenStays`, `CredentialsReach`, `NothingLeftOver`, `BestReturned` | `TypeOK`, `LockBalance`, `GivenStaysLocked`, `CredentialsReachable`, `NoMatchLeftOver`, `ReturnsBest` |
| `MetadataTree_proofs` | `FencesAreFirstEnds`, `SoonestIsFirstEnd`, `FiltersLeaveTheAdmitted` | (about the operators) |
| `XMLMetadataProvider_proofs` | `InvariantCorrect`, `TypeCorrect`, `BackupKept`, `ReloadedInTime`, `AdmittedOffered`, `EndsInherited` | `TypeOK`, `BackupCurrent`, `ReloadsInTime`, `OffersTheAdmitted`, `NothingOutlivesItsGroup` |
| `SecurityPolicy_proofs` | `InvariantCorrect`, `TypeCorrect`, `IssuerJudged`, `PeerAuthenticated`, `ReplaysStopped` | `TypeOK`, `RulesJudgeTheIssuer`, `AuthenticatedByIssuer`, `NoTimelyReplay` |
| `XMLElement_proofs` | `TypeCorrect`, `DocumentsInOrder`, `ClonesAreEqual`, `DocumentsSurvive` | `TypeOK`, `ChildrenInOrder`, `CloneIsEqual`, `DocumentSurvives` |

The arguments, each an inductive invariant `IInv` with one lemma per action:

- **In-memory map.** Index and map agree only because every mapping is owned by
  the map, each content has one handle, and a mapping keeps the terms of its own
  content; these are the conjuncts. `IndexFollowsMap` is needed on top: a sweep
  erases by handle, so the index must not hold an entry older than the mapping
  of its handle, which is true of every handle that is not in `Reusable` and of
  no other; `FreesOnlyExpired` is about those, and the other theorems hold of
  every handle. `StoringSweeps`
  is the converse of `FreesOnlyExpired`: every mapping has an index entry with its
  time, so the sweep meets every mapping that is over. `Implements`
  maps each action to a step of `OneTimeArtifacts`, in which several contents
  may move at once (a store with its sweep).
- **Storage.** `EndedIsGone` is not inductive: a thread between its read and its
  deletion holds a copy of a record that others may delete or replace. The
  invariant says that what such a thread has read can be only under the key it
  read, and nowhere once it has deleted (`BuffersTaken`); it needs that a
  content is under one key, which holds because a content is stored once.
- **Dynamic provider.** Mutual exclusion (`InstallsAlone`) carries
  `OneEntityPerID` and the refinement of `ProviderLock`. Timeliness needs
  arithmetic on the refresh interval (`CacheForBounds`: a proper fraction of a
  lifetime, clamped), and that a thread waiting for the write lock carries a
  refresh time that is still in time when it installs. `FailureKept` links the
  refresh time to the last failed attempt. `HorizonAssumption` says that the
  clock stays clear of `SAMLTIME_MAX`, which stands for "never expires".
- **Chain.** A thread holds, of each child, the locks it is due (`Due`) and those
  exceptions have left behind. `SearchInOrder` (the best match so far comes from
  an earlier child than the one asked, and children are distinct) is what makes
  the lock of the asked child and that of the best match two different locks.
  `GivenStays` follows from the balance, from `GivenTracked` and from `Exclusive`
  (a child that is written is locked by its writer only, through every way a
  write lock can be kept or left behind): the children a thread was given
  something from are locked by it and not written by others, while it searches
  as well as between searches. Left out is one window, which the code has
  (`BetweenLocks`; [disagreement 4](#disagreements)): a later search of the same
  thread asks that very child, and the child gives the lock up to fetch. `BestReturned`
  needs to know, in the middle of a search, that the best match so far and its
  quality are what the policy makes of the answers so far, and that no answer so
  far has ended the search; the step appends one answer (`AnswerAppended`). At the
  end it is the definition of `Best` over all answers, found by first and last
  index rather than along the way.
- **Trees.** Validities and removals follow the path of groups above a node, so
  each proof goes down the path. There is no induction rule to cite (see below),
  so it is by least counterexample: of the nodes that violate the claim take one
  with the shortest `above`; its parent satisfies it, contradiction. In the same
  way a chain of filters is taken filter by filter. `FiltersLeaveTheAdmitted`
  rests on what the trees in between have in common with the document
  (`FilteredBy`): a tree again, with the names, signatures and validities of the
  document, the roles and tags as edited so far, and exactly the entities that
  every filter so far admits. Assumed is that the documents are trees (`WellFormed`, which
  TLC evaluates on those of the run) and that no filter rejects them.
- **Reloading provider.** `BackupCurrent` is not inductive: what is installed
  becomes what is offered, so the invariant (`LoaderKnows`) says for each step of
  the loading thread that the version in its hands is published and at least as
  new as what is offered (`Forward`), that a version that is committed is the one
  in the temporary file unless the copy was cut short, and that at the last two
  steps it is the backup. `ReloadsInTime` is arithmetic on the interval
  (`RefreshBounds`: a proper fraction of the time left, clamped, so over before
  that time is, or the minimum). These theorems hold whatever the filters do;
  `AdmittedOffered` and `EndsInherited` add that what is offered is the index of a
  version that was `Filterable` when it was loaded, and then use the theorems about
  trees. Assumed: `DelayAssumption` (what the
  constructor enforces of delays and factor), `VersionAssumption`,
  `TimeAssumption` and `LimitAssumption` (times are whole seconds).
- **Security policy.** Authentication is kept by three facts about one policy
  (`JudgesTheIssuer`, `Knows`): its metadata are those of its issuer; they are
  replaced only while there is no issuer, and then it is not authenticated; and a
  policy that waits for an answer holds the peer it asked. `ReplaysStopped` needs
  that the policy's message ID is that of the layer being judged
  (`HasTheMessage`), and that the cache shows every message that has passed until
  its last second (`Remembered`), through other messages of the same ID,
  artifacts, and the storage forgetting. Assumed is only the typing of messages,
  requests and configuration, and that messages are dated.
- **XML objects.** The inductive invariant is `LaidOut`, and `TypeOK` contains it,
  so the run checks it. It says that every slot has its cell and that any two cells
  are in the order of their places, where the place of a list's member is that of
  its fence, behind the members already there. `InsertedInPlace` shows that the
  iterator a list inserts before is such a position after any history of other
  insertions, removals and settings. That the layout is the order of the schema is
  a condition on the description of a class (`FollowsSchema`: nothing may precede
  what the schema puts first, unless they are alternatives), with `HasPlaces` and
  `ReadsItsSmallest`. The theorems hold for every library whose classes meet these
  conditions (`Roots \subseteq Sound`), any number of changes and all sequences of
  them; the conditions are finite facts about each class, and `TypeOK` has TLC
  evaluate them on every class of the real library, the copies of
  the one class in `Uncopied` excepted. The document is defined by the
  filled cells in order, and the order of `Filled` is proved from counting
  (`HasNth`: a finite set of numbers has a k-th member).
- **Copies and documents read back.** Both rebuild the object child by child, and
  the argument is the same for both: a rebuilt sequence that is laid out and has
  exactly the children of the original is the original, if children that share a
  place went in one after the other (`SortedOrder`, `InsertedInPlace`). What must
  hold of a class for that is again part of `Sound`. For a copy (`CopiesItsOwn`),
  every child is in one group of the copy constructor, which casts it to the
  member it came from, and two lists of one place are in one group, or are
  alternatives; the groups may come in any order. For a document (`ReadsItsOwn`),
  the first test that accepts a child puts it at its place, so that no earlier
  singleton is ever found taken (`ReadByFirst`); or, for a role of unknown type,
  all children go to one list, which keeps them in the order of the document. That
  each comes back into its own member is `ReadsIntoItsMembers`. `Unmarshall`, `CopyGroup` and `Clone`
  are recursive functions, whose equations (`ReadStepByStep`, `CopyStepByStep`,
  `CloneStepByStep`) the proofs have to derive first.

Induction over data cannot be cited: the induction theorems of the library take
an operator as a parameter. Where a proof needs it, it takes a least
counterexample instead, from `WFMin`, and the existence of a recursive function
is shown by extending one from a smaller domain.

Only model-checked:

- liveness (`LookupsEnd`, `SearchesEnd`, `SourceServed`), which is outside the
  prover's reach under fairness;
- `ValidatorsSound` and `ValidatorsComplete`: they compare two finite descriptions
  of each class, the validator and the schema, and there is no argument but to
  look at both. The validators are an operator parameter of `XMLElement`.

## Disagreements

What the code does against what its comments say. The first three are runs that
TLC ends with a counterexample (`findings` in `PROJECT.json`):

1. The sweep of `storeContent` deletes an expired content and then erases its
   mapping, whose destructor deletes it again (`ArtifactMappings_deletes`).
2. A lookup that asked for valid metadata returns an entity that expired while
   its refresh was failing (`DynamicMetadataProvider_stale`).
3. `EntityRoleMetadataFilter` is told which roles to retain. Of the extension
   roles it erases exactly those (`EntityRoleMetadataFilter.cpp:188`), and keeps
   the others (`XMLMetadataProvider_roles`).

The next are stated in the modules but are not among the runs; each is violated
when its property is added to the configuration of its module (`IntervalReestablished`
and the like as an `INVARIANT`, `AttemptsThrottled` as a `PROPERTY`):

4. "If a valid entity is returned, the provider will be left in a locked state.
   The caller MUST unlock the provider when finished with the entity"
   (`MetadataProvider.h:245`). A thread that asks the chain for a second entity
   asks the dynamic child its first came from, which gives up the lock to fetch;
   another thread then writes that child while the first still uses the entity
   (`ChainingMetadataProvider`: `EntityStaysLocked`;
   `DynamicMetadataProvider.cpp:231`).
5. The clone of a SAML 2.0 `Condition` that has no DOM has none of its children:
   the class uses the macro that calls only the copy constructor, and
   `AnyElementImpl` copies children in `_clone` (`XMLElement`:
   `EveryCloneIsEqual`; `Assertions20Impl.cpp:234`). The unit tests require of
   every object they build that its clone is written like it
   (`samltest/internal.h:107`), but the `Condition` they build is empty
   (`Conditions20Test.h:116`).
6. `getRelyingParty` reads a mapping without the lock its erasers hold
   (`ArtifactMappings`: `ReadsLiveMapping`).
7. With a StorageService, two resolvers that both read before either deletes
   both get the content (`ArtifactStorage`: `DeliveredOnce`).
8. A source that answers with another entityID leaves no trace in `m_cacheMap`
   and is asked by every lookup (`DynamicMetadataProvider`: `AttemptsThrottled`;
   the comment at `DynamicMetadataProvider.cpp:133` says the opposite).
9. A second lookup in a session destroys the credential the thread was given
   after the first (`DynamicMetadataProvider`: `CredentialsLive`).
10. The three query roles of an entity are written as `RoleDescriptor` elements
    with a type, but `EntityDescriptorImpl` reads them back by another name, so
    they end up in the list of unspecific roles (`XMLElement`: `QueryRolesSurvive`;
    `MetadataImpl.cpp:2028`).
11. A reloading provider that starts on a preserved tag and is told "not modified"
    works out its interval before it has loaded the backup, from no validity at
    all, and waits the maximum (`XMLMetadataProvider`: `IntervalReestablished`;
    the comment at `XMLMetadataProvider.cpp:301` says that the interval is
    established again).
12. `SecurityPolicy::reset` keeps the time of the first use, so a policy that is
    used again for later messages judges them by an old clock and lets a copy
    through (`SecurityPolicy`: `NoReplay`; `SecurityPolicy.cpp:156`). The same
    property fails without reuse in one second: the rule accepts a message up to
    and including the second at which the record it leaves expires
    (`MessageFlowRule.cpp:92` and `:111`). `NoTimelyReplay` is what is left, and
    is proved.

Known from the models without a contradicted comment:

- A child that throws leaves its lock behind (`lost` in the chain; `LockBalance`
  counts it), the write lock if it was writing, and then every thread that comes
  to this child waits for ever; and two threads that each keep a dynamic child locked and ask the
  other for an entity that has to be fetched wait for each other for ever.
  `SearchesEnd` is therefore checked with one dynamic child.
- A reloading provider whose rename failed preserves the tag all the same. After
  a restart the source says that nothing is new, there is no backup, and nothing
  is offered until the next version; `SourceServed` excepts this. A copy
  that is cut short is committed like a whole one. The tag of a version that was rejected is
  remembered, so it is not loaded again once it would be acceptable.
- Validators that accept more than the schema: an empty `Subject`, an
  `AuthnContext` with a declaration and a reference to one, a SAML 2 `Action`
  without its namespace, a SAML 1 `AttributeStatement` without a `Subject`, an
  affiliation that also has query roles. Validators that ask for more: something
  inside `Conditions` (both versions), `ProxyRestriction` and `SubjectLocality`
  (both), an unencrypted attribute in an `AttributeStatement`, the `Subject` of an
  assertion with standard statements, the `Comparison` of a
  `RequestedAuthnContext`, one way to name the consumer service in an
  `AuthnRequest`, the `AuthenticationMethod` of a SAML 1 query, a role that is not
  a query role in an `EntityDescriptor`. They are the exceptions named in
  `XMLElement`.
- `RoleDescriptorTypeImpl::processChildElement` (`MetadataImpl.cpp:1069`) does not
  use the reader of its base class, so the children of an unknown role come back
  as unknown children. The builder of `DelegationRestrictionType` names an element
  that no reader of `Conditions` accepts. Children of a mixed choice (`Request`,
  `RequestedAuthnContext`) are written in the order in which they were added.

## What is not modelled

- XML, JSON, HTTP, URLs, key sizes and other formats: an entity, a message or a
  handle is a model value. Cryptography is external.
- The read-write lock and the mutex are primitives, and the order in which they
  serve waiters is left open beyond fairness.
- In the dynamic provider: memory of replaced entities, which the code never
  frees; observers that call back into the provider; nested locks of one thread;
  which of two concurrent fetches is newer (documents carry no version).
- In the chain: nested sessions of one thread, the discovery feed, plugin
  construction.
- In the reloading provider: local files (watched, without a backup), providers
  without a reload interval, the JSON of the feed, regular expressions in
  matchers, how a signature is verified.
- In the policy: `setTime`, the issuer-matching policy of an application,
  `NullSecurity`, undated messages, transfer encodings and RelayState. What ends
  an exchange after the rules on a client's side (a status that is an error) is a
  free choice.
- In the XML objects: values of attributes and text (dates, booleans, numbers,
  enumerations) and the lookups that compare them, DOM caching, and extension
  elements, which are one class.
- Encoders, artifact parsers, the rules and validators of single assertions, the
  signature profile, encryption, `SAMLConfig`, the cookie and the command line
  tool: stateless, or calls into the cryptographic library; `PROJECT.json` says
  why for each.

`PROJECT.json` lists all components with their status, and the hazards of the
code with the property that covers each, or the reason why none does.

## Plan

1. *Done.* Artifact maps and the providers that serve lookups, with proofs.
2. *Done.* The security policy with its rules, decoders and SOAP clients over one
   replay cache, with proofs.
3. *Done.* The reloading provider with its backup, filters, matchers, index and
   feed, with proofs.
4. *Done.* The XML object model and the schema validators.
5. *Done.* Proofs of `ReturnsBest` and `StoreSweeps`; of filters and validities on
   any tree; of the layout, the order, the copies and the reading of any XML object.
6. Pure operators against reference definitions: conditions, audience, bearer and
   delegation rules with the browser SSO profiles, the signature profile,
   artifact parsing, the common-domain cookie.
7. `SAMLConfig` init and term; encoders and the ownership of messages; the policy
   composed with `OneTimeArtifacts` on the other end of an artifact exchange.
