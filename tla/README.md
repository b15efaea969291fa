# Formal models of Stra2us

Stra2us is a small IoT backend: a FastAPI server in front of one Redis gives
devices signed queue and key-value operations, gives administrators a JSON API
and a single-page console, and gives customers a settings page per device that
is generated from a YAML catalog. This directory holds TLA+ modules translated
from that code, TLC configurations that check them on small instances, and
proofs of their main theorems for instances of any size.

Run everything from this directory:

    tlc -workers 2 -config MCQueue_sequential.cfg MCQueue
    tlapm QueueStream_proofs.tla

`PROJECT.json` lists the runs, for every definition the source lines it stands
for, for every property a mutation of the code's translation that breaks it,
and the hazards in the code that the properties are aimed at.

Contents: 1 inventory, 2 modules and their correspondence with the code, 3
runs and bounds, 4 fairness, 5 proofs, 6 disagreements found, 7 what is left
out, 8 plan.

## 1. Inventory of the system

The server has no locks, transactions or background tasks. All durable state
is in Redis; each handler is an `async` function, and at every `await` on
Redis other requests run. One Redis command is atomic (so is one Lua script),
and nothing larger is. A handler may end at any await: the process is stopped,
the client disconnects, or a Redis call raises.

| Component | Source (under `src/`) | State | Operations | Module |
|---|---|---|---|---|
| Broadcast queues | `backend/src/api/routes_device.py` | stream `q:<topic>` with its TTL, `cursor:<client>:q:<topic>` | publish, consume, operator's delete | `QueueStream`, `QueueBroadcast` |
| Key-value store | `routes_device.py`, `routes_admin.py`, `core/security.py` | `kv:<key>`, sidecar `kv:<key>:enc`, `kvenc:nonce:<client>` | write, read, encrypted read, delete; operator's set and delete | `KvStore` |
| Client registry, device authentication | `routes_admin.py`, `api/routes_app.py`, `api/dependencies.py` | `client:<id>:secret`, `client:<id>:acl`, `device_to_app:<id>` | create, provision, edit, revoke, key backup and restore, lookup with backfill, verify a request | `ClientRegistry` |
| ACLs and admin users | `dependencies.py`, `routes_admin.py` | `admin_acls:<user>` | evaluate; edit and delete a row; list who sees a device; name a scope | `Acl` |
| Settings page and form | `api/routes_app.py`, `routes_app_form.py`, `services/value_resolver.py`, `widget_renderer.py`, `static/app/forms/touched_state.js` | a page in a browser | resolve and render, edit, submit | `AppForm`, `CatalogField` |
| Catalog schema, lint, coercion | `tools/stra2us_cli/catalog.py`, `catalog_lint.py`, `cli.py` | a catalog file | lint, publish, set, unset, show | `CatalogField` |
| Catalog publishing, page, assets | `tools/stra2us_cli/catalog_publish.py`, `api/routes_app*.py`, `services/page_renderer.py`, `markdown_cache.py` | `_catalog/<app>`, its `_assets` records and their index; the browser's cache | publish in stages; render; serve | `CatalogPublish` |
| Admin sign-in | `main.py`, `core/admin_auth.py`, `core/oauth.py`, `api/routes_oauth.py` | session, state and redirect cookies, htpasswd file | gate, Basic and Google sign-in, sign-out | `AdminSession` |
| Activity and performance logs | `main.py`, `core/perf_log.py`, `routes_admin.py` | two capped streams | append per request; list by ACL | `ActivityLog` |
| Stream monitor, heartbeat dump | `routes_admin.py` | none | page through a stream | `StreamMonitor` |
| Backup and restore | `services/backup_io.py`, `backup_format.py`, `routes_admin.py` | everything in Redis, in an envelope | collect, apply; whole or per app | `Backup` |
| Theme, security headers | `services/theme_serializer.py`, `main.py` | none | hash, stylesheet, policy | in part in `CatalogPublish` |
| Sanitizers, device library, console, scripts | see `PROJECT.json` | none that lasts | pure functions, callers of the API, hand-run scripts | not modelled |

How they interact: every device request passes the two logging middlewares and
authentication, which reads the registry, then the ACL check, then a queue or
store handler. The settings page writes the same records as devices and
operators do, by the rules of the catalog that the command line published into
the same store. Every administrator's request passes the gate, which knows
sessions and passwords, and then the ACL of its user. Backup reads and writes
the records of all of them, without stopping them.

Where it is hard, and what must be true there:

* **Queues.** A cursor is read at the start of a request and written, without
  comparison, at its end; a device that times out and retries has two requests
  in flight. XADD and EXPIRE are separate. Cursors outlive the stream they
  point into. No client may be moved past a message it could still have had;
  order and at-most-once must survive aborts; polling must get through.
* **Store.** Value and flag are two commands in writes and in reads. A write
  must be able to repair whatever an earlier one left half done; no keystream
  may be used twice, however reads overlap.
* **Registry.** Three records per client, written one after the other and read
  in two commands by authentication. Identifiers are reused. A secret that was
  handed out must go on working; the permissions of an earlier holder must not
  come with the identifier; who was revoked must not come back by a lookup.
* **ACLs.** The order of entries matters, and several pieces of code evaluate
  them. Edits that only append must not take access away, and listings and the
  reported scope must tell the truth.
* **Form and catalog.** A page is a snapshot that may be old when it comes
  back. Schema, lint, command line, widgets, the browser's validation and the
  off-spec badge are six pieces of code with one idea of what a value may be.
* **Publishing.** A publish is a row of requests that may stop after any;
  pages are loaded between them, and browsers keep what they are told is
  immutable. The live catalog must find its logo; clean-up must take what is
  dropped and nothing else; nobody must see one catalog's block or stylesheet
  in another.
* **Sign-in.** Tabs share cookies; a session has two lives, the cookie's and
  the token's; the secret changes with the image. Only who proved himself to
  this image within a day may be let in, and a logout must end it.
* **Logs.** A log entry is written after the work it reports. Pages are cut
  before they are filtered, by an ACL loaded earlier.
* **Stream pages.** Batches are read from a stream that grows and is deleted.
* **Backup.** Thousands of commands over live data. What nobody touched must
  come through exactly, flags, streams and their ids included.

## 2. Modules

| Module | Stands for | Proofs | Instances |
|---|---|---|---|
| `QueueBroadcast` | what a topic promises: a broadcast | | by `QueueStream` |
| `QueueStream` | one topic and its consumers | `QueueStream_proofs` | `MCQueue` |
| `KvStore` | the store, its writers and readers, the nonce | `AppForm_proofs` | `MCKv` |
| `AppForm` (extends `KvStore`) | settings pages over the store | `AppForm_proofs` | `MCForm` |
| `CatalogField` | one catalog variable, from its declaration to its card | `CatalogField_proofs` | `MCField` |
| `Acl` | one administrator's ACL and its evaluators | `Pages_proofs` | in `MCLog` |
| `Pages` | what pages that list a stream share: picking entries, cutting at a limit | `Pages_proofs` | in `MCLog`, `MCMonitor` |
| `ActivityLog` (extends `Acl`, `Pages`) | the logs and the pages that show them | `Pages_proofs` | `MCLog` |
| `ClientRegistry` | clients' records, operators and devices | `ClientRegistry_proofs` | `MCRegistry` |
| `CatalogPublish` | the staged upload, pages and caches | `CatalogPublish_proofs` | `MCPublish` |
| `AdminSession` | who an administrator's browser is to the server | `AdminSession_proofs` | `MCSession` |
| `StreamMonitor` (extends `Pages`) | monitor pages and heartbeat dumps | `Pages_proofs` | `MCMonitor` |
| `Backup` | envelopes over a store of all sections | `Backup_proofs` | `MCBackup` |

Conventions in all of them: one action per Redis command of a handler where
what happens between two commands matters, with the Python between them folded
into the action of the command before or after it; a request is a slot with a
`step` and its local variables; an `Abort` or `BreakOff` action ends it at any
await and keeps what it has already written. Sets such as `Slots`, `Writers`,
`Tabs` and `Operators` bound how many requests run at once, not how many run.
History variables, marked as such, are read by properties and by no guard, but
for counters that are bounds. A few operators are variants of the one after
them in which a plausible mistake was made; no specification uses them, and
the mutations in `PROJECT.json` put them in its place.

**QueueStream.** Variables: `stream`, `lastId`, `ttlAt` are Redis' stream key;
`cursor` the cursor keys; `pc`, `last`, `now`, `hit` the locals of
`consume_message`; `pub` the publish requests; `clock` is `time.time()`.
`GetCursor`, `ReadClock`, `XReadEmpty`/`XReadHit`/`XReadExpired`, `SkipBatch`,
`SetCursor`, `Reply` follow `consume_message` line by line: a batch is read,
the first live entry ends the loop, and a batch of expired ones moves
`last_id` and loops. `BeginPublish`, `XAdd`, `Expire` are `publish_message`,
with the cap on ttl and the two-step EXPIRE. A stream id `<ms>-<seq>` is one
number, `clock * IdsPerTick + seq`; what Redis does (`NextId`, `DropKey`,
`KeyExpires`) is marked external. `recycled` records messages whose id was not
above every earlier one, which can happen when a deleted stream is filled
again within the same millisecond.

**QueueBroadcast** has no ids, cursors or clocks: `sent`, the messages that
are `live`, and what each client has `taken` and `received`. `QueueStream`
implements it (`Broadcast`) with `live` mapped to the entries that have not
expired and are not `recycled`. `XAdd` is `Publish`; expiry, deletion and the
clock are `Lose`; `SetCursor` with a message in hand is `Take`, `Reply` is
`Receive`, and every other step is a stutter.

**KvStore.** `val` and `enc` are the record and its sidecar, `nonce` the
counter, `wr` and `rd` the requests. A value is a text and a type, since the
string `"129"` and the number 129 print alike and are told apart only by
msgpack; `Decode` is the `json.loads` of `set_kv`. `want` and `torn` say what
flag the last write asked for and whether it overlapped another write or broke
off. `IssueNonce` is the Lua script: one past the last nonce, or the clock if
that is later. The keystream is not modelled; its only state is the nonce.

**AppForm.** A page walks through the resolution chain (device override, the
app's public value, the catalog's default), is edited or not, and posts;
`serialize` decides what a clean field sends. The flag steps of a form write
are `KvStore`'s `WriteFlag`, `GetFlag` and `KeepFlag`. `Republish` changes the
catalog under open pages. One variable is modelled: the page's fields do not
share state, and the handler repeats these steps field by field.

**CatalogField** is the other half of the form, the rules. `decl` is a
variable as an author may write it, with every hint of the schema; `SchemaOK`
is `catalog.py`'s validation, `LintOK` the lint's errors, and `Publish` needs
both. `Widget` picks the control as `widget_renderer.py` does; `Shown` is what
the control shows of a value (the page clamps a slider's value and the browser
snaps it to the step, a `<select>` without the value shows its first option, a
number field without a number is empty), `OffSpec` the badge, `Choosable` and
`Submittable` what the browser's own validation lets through, the step
included. `Step` and `Base` are HTML's: a field without a `step` steps by one,
counted from its lower bound or from the value it was rendered with.
`Coerced` is `coerce_value`, `CliSet`, `CliPut`, `CliUnset`, `Effective` are
the command line's, `Serialized` and `Save` the page's and the form handler's,
`DeviceWrite` a device's, which no rule binds. A value is a text, native or as
a string. Texts are told apart by who reads them as what: a number as Python
prints it, a number JSON reads but Python prints otherwise (`1.10`, `1e5`), a
number only Python reads (`+1`), a boolean, null, nothing, a quoted JSON
string, a word of a length; numbers are counted in halves. `Decoded` is the
`json.loads` of `_decode_form_value`. Here a request is one step:
interleavings are `AppForm`'s and `KvStore`'s.

**Acl.** Pure operators for `check_acl` (first covering entry decides),
`_acl_candidate_paths` (a catalog stash answers to its app's entries as well),
`load_admin_acl` with `RESCUE_USERS`, the two listings, which evaluate ACLs in
their own way, and the scope `get_me` reports. Its actions are the two routes
that edit a row. Paths and prefixes are sequences of segments; a prefix
matches at segment boundaries, as in `_prefix_matches`.

**ActivityLog.** `HandleRequest`, `LogRequest`, `Answer` are a device request
between the two middlewares: the work, the activity entry, the answer and the
performance entry. `LogFails` is an activity entry whose write raises, applied
by Redis or not, which fails a request whose work is done; `perf_log.py`
swallows the same failure, so that in `Answer` the performance entry is there
or not. `BreakOff` ends the request at either middleware's write, which Redis
may have got, or at a lost connection when the answer is sent. `broken` holds
the requests nobody was answered and the ones whose write raised after it was
applied.
`Appended` trims approximately: any number of old entries, down to the limit,
may still be there. `GetLogs` and `ShowLogs` are one page, in two steps
because the ACL is loaded before the log; `GetPerfLog` the other page. The
administrator's row is edited between any two steps.

**ClientRegistry.** Each superuser handler is a chain of steps over `secret`,
`acl` and `index`; `LookupMiss`, `Scan` and `Backfill` are the customer
lookup. A device request verifies its signature against the secret, then
fetches the ACL, then is served. `BackupAcl` answers a key backup: the file
shows the operator the secret, so a device may sign with it from then on
(`known`). A file in `files` may be restored at any later time. Records under
a device's name are written and deleted, by the device (`Serve`) and by
administrators (`AdminKv`). Secrets are numbered in the order of generation,
and an ACL record carries the number current when an operator decided on it,
which is how "newer than" is said; backup and restore keep that number, so that
a restored ACL is as old as it was. The HMAC is: the signature matches, or not.
`raced` holds the ids about which two requests were ever under way at once,
`torn` those of which a restore broke off between its two SETs or overlapped
another request.

**CatalogPublish.** `StartPublish` is the lint and the sanitizing of a local
tree; then one action per request of `publish_assets`: the old index is read,
each file's bytes and sidecar are PUT and their answers checked, the catalog,
the new index, and the DELETEs of dropped files. `PutYaml` is the publish of a
catalog with no asset directory. `BreakOff` may come before any of them. A
page is loaded in `OpenPage` (read the catalog), `RenderPage` (read the
theme's hash, render the block through `markdown_cache`), `ServeTheme` or
`CssFromCache`, `ReadAssetBytes` and `ServeAsset` or `LogoFromCache`.
`Restart` empties the server's markdown cache. A theme's hash stands for the
theme and the publish hash of a catalog for the catalog, that is, hashes do
not collide.

**AdminSession.** One browser, several tabs, a Google account and a password
user. `Send` takes the cookies of the moment; one of `AnswerForged` (foreign
origin), `AnswerOpen`, `AnswerSession`, `AnswerBasic`, `AnswerAsk` is the
middleware and the handler behind it, and what it sets arrives then.
Who may not write is answered 403 by the admin routes, led to the landing page
by the device's page, which also shows it that page, and answered 405 where
nothing can be written (`May`, `Refusal`). `OauthLogin`, `SendCallback`,
`CallbackFails`, `CallbackUnauthorized` and `CallbackSignsIn` are
`routes_oauth.py`. Google leads back to the one redirect URI that is
configured: `home` says of a deployment whether that is the host the browser
is on, and if not, `SendCallback` carries none of this host's cookies.
`Logout` depends on the host: the
browser-facing one redirects, the device host answers 401 so that the browser
forgets its password. `Deploy` changes the session secret unless it is pinned,
`CreateAdmin` the password, `Work` what a write behind the gate writes, rows
among it, `Tick` the time; cookies drop
when their life is over. A token is its user, expiry, and the secret that
signed it.

**StreamMonitor.** `MonitorOnce` is the page without a filter, one XREVRANGE;
`MonitorBatch` the filtered one, backward in batches until the page is full,
the stream ends or a cap is reached; `DumpPage` the forward pages of
`dump_heartbeats`. `reading` is the page being put together, `page` the last
one answered. `Publish`, `DeleteQueue` and `Tick` come between the reads.
Whose heartbeats a topic carries is a constant.

**Backup.** What a key holds is a set (missing is empty; a stream is the set
of its entries), and an item has a main key and a side key: secret and ACL,
value and flag. Collecting goes section by section in the code's order: `Scan`
is the KEYS, `FetchMain` and `FetchAcl` the reads, with the per-app filters
and with `str(None)` for a client whose secret has gone. Applying takes an
item, skips it if it exists and is not to be overwritten, writes its keys, and
for a stream deletes it and adds the entries with their old ids, which Redis
refuses unless they grow. `Traffic` is any one command of any other request,
at any moment; `Migrate` takes the envelope to an empty instance. There is one
envelope at a time: a second restore under way, or one during a collection, is
other traffic to the first. `before`, `start`, `dirtyD` and `dirtyR` are
history: the contents when collecting and restoring began, and the items
others have touched since.

Compositions: `AppForm` extends `KvStore` and interleaves its writers with the
pages; `ActivityLog` extends `Acl` and shows the logs under a row that is
being edited (`RowAsInAcl` proves that `Acl`'s own specification still holds
of that row); `Backup` carries the other components as `Traffic`, which is
weaker than any of them (it allows every command they could issue) and so
sound for the safety properties stated there; `CatalogPublish` composes the
publisher, the server's cache and a browser. `QueueStream` implements
`QueueBroadcast`.

## 3. Runs

| Run | Distinct states | What it shows |
|---|---|---|
| `queue_sequential` | 49 thousand | One request at a time, through aborts, lost responses, deletion and expiry: `Fifo`, `EventuallyGiven`, `EventuallyAnswered`; the queue implements `QueueBroadcast` (`Broadcast`) |
| `queue_overlapping` | 4.9 million | Two requests of one device, two publishers: `NoSkip`, `AckedOutlivesKey` |
| `kv_store` | 1.0 million | Two writers, two reads of one client: `FlagMatches`, `NoncesGrow` |
| `form_flags` | 1.9 million | A page, another writer, republishing: `FlagMatches` |
| `field_rules` | 308 thousand | Every widget and kind of hint, any stored value. Badge and widget agree but on steps and spellings (`ShownOrFlagged`); command line and page agree (`CliAndPageAgree`); an edit is shown next (`EditedSaveShown`); an untouched save changes nothing one sees, re-decoded text left out (`UntouchedSaveSame`) |
| `registry_race` | 2.6 million | Two operators and a device on one id: `NoInheritedAcl`, `HandedSecretsWork`, `RevokedResolvesByRecord` |
| `publish_staged` | 4.0 million | Three publishes broken off anywhere, under a browser with a cache: `LiveLogoStored`, `RenderedLogoServed`, `ListedIsStored`, `BlockOfItsCatalog`, `StylesheetUnlessRaced` |
| `session_gate` | 4.6 million | Two tabs, three deployments: `AdmittedByProof`, `SignInWorks`, `StateSingleUse`, `LogoutEnds`, `AnswersTellTheTruth` |
| `session_lifetime` | violated | `SessionLasts`, the documented seven days |
| `log_pages` | 541 thousand | Every small ACL and its edits: `ListingsMatchCheck`, `ScopeHonest`, `AppendKeepsAccess`. Then requests that break off anywhere, read under a row that changes: `LogMatchesAnswers`, `LogPage` |
| `stream_pages` | 1.4 million | Pages and dumps over a stream that grows and is deleted: `NewestFirst`, `NothingMissed`, `DumpComplete`, `ReadsEnd` |
| `backup_restore` | 1.4 million | Dump, restore, restore again, with foreign commands: `DumpExact`, `RestoreExact`, `FailsOnlyOnTraffic` |

The two queue runs split one question in two because the answers differ.
`Fifo` and `Broadcast` hold for a device that waits for its answer. With two
requests of one device in flight they do not: the slower request writes back
an older cursor and the message comes twice. What survives even then is
`NoSkip`, and that is the property devices that retry depend on.

`HandedSecretsWork` and `RevokedResolvesByRecord` likewise speak of ids about
which no two requests overlap, `LiveLogoStored` of catalogs published with
their assets, `ListedIsStored` of publishes that ran to the end, and
`StylesheetUnlessRaced` of pages no publish fell into. `NoInheritedAcl` leaves
out ids a restore was torn over, and lets a secret act under an older ACL that
a backup showed next to it; `LogMatchesAnswers` lets a request that was broken
off be logged as a success; `SignInWorks` speaks of the host Google leads back
to, and the second half of `AnswersTellTheTruth` of sessions, not passwords.
`ShownOrFlagged` leaves out numbers off their step and ones HTML does not read,
`EditedSaveShown` and `UntouchedSaveSame` promise the same text only where
`json.loads` gives it back, and the same number elsewhere. Each premise is
needed: without it the property is false of the code (section 6).

Bounds, and why they are enough:

* *Queues.* Two messages, three ticks, ttls of 0 and of one more than the cap.
  A wrong skip needs one message passed and one read; two requests and two
  publishers give every order of their commands. `BatchSize` is 2 in one run,
  so that a batch mixes expired and live entries, and 1 in the other, so that
  the loop goes round. Messages that expire within their second, at the cap,
  and a key that expires between two publishes all occur. One topic and one
  client are enough since neither shares state with another.
* *Store.* One key: the two commands of a write concern one key, and the nonce
  is per client. Three nonces over two ticks give a tie within a second, a
  jump, and a nonce ahead of the clock.
* *Form.* Two keys are the device's and the public record of one variable; one
  page and one other writer.
* *Fields.* Fourteen declarations cover each widget and each kind of hint, with
  and without steps, eleven more are refused, each by another rule. Typed texts
  and device values lie inside and outside every rule: numbers within and
  beyond the bounds, on and off the step, in each of the spellings above, words
  and a quoted one, texts the pattern knows and ones it does not, null,
  nothing.
* *ACLs and logs.* Every ACL of up to two entries is reached, over prefixes
  with the wildcard, an app, a device, another app and two catalog prefixes,
  and asked about five paths: that gives a first and a covering later entry,
  and one appended. (The proofs lift the two.) Traffic then runs under two
  rows, `LogRows`, a wildcard reader and one of one app, swapped at any moment.
  Logs of two entries and a ceiling of two make trimming, a full window and
  crowding happen with two requests. `Factor`, `PerfFactor` and `Ceiling` are
  the code's 10, 5 and 5000 scaled down.
* *Registry.* One identifier, since the records of two never meet, two
  secrets, a first holder's and a second's, and one backup, taken at any moment
  and restored at any later one.
* *Publishing.* Two files, two contents and one refused, two themes, two
  blocks. The seven trees in `MCPublish` replace a file by another, change one
  in place, drop the directory, empty it, change only the block, go back to an
  earlier theme; two are refused. Three publishes: one to be cached or broken
  off, one over it, and a return to the first.
* *Sessions.* Two tabs, two sign-ins; token and state live one tick, the
  cookie three, over a clock of two, so that a token expires within its cookie
  and a state within a sign-in. Three deployments: the
  browser-facing host, to which Google leads back; the device host, to which it
  does not; no Google sign-in and a pinned secret. Two changes (deployments,
  passwords, writes carried out)
  and one request on its way at a time: two requests of a browser meet in the
  cookies alone, and tabs' callbacks are requests of their own.
* *Stream pages.* Batches of one message and at most three of them, so that
  the cap strikes with the four messages there are; dump pages of two; pages
  of one and two; messages of ttl 0 and 1 over one tick.
* *Backup.* One item per section, of two apps, and a stream with an entry
  older than any that traffic adds. One foreign command and two restores: a
  stale flag or half-written item left by the first must be put right by the
  second. The proofs lift these bounds.

Deadlock is checked in every run. All bounds of models (`MaxMsgs`, `MaxClock`,
`MaxReads`, `MaxPerms`, `MaxSecrets`, `MaxFiles`, `MaxTraffic`, `MaxRestores`,
`MaxPublishes`, `MaxTime`, `MaxLogins`, `MaxChanges`, `MaxOnWay`, `MaxSent`,
`LogRows`) are constants of the modules, commented as bounds. Symmetry is used
in `queue_overlapping`, `kv_store`, `registry_race`, the two session runs and
`log_pages`, over request slots, publishers, writers, operators, tabs and
devices, which the specifications treat alike and which their properties do not
name; no run with a liveness property uses it. Type invariants are
model-checked in `queue_sequential` and `backup_restore`; those of `KvStore`,
`AppForm`, `ClientRegistry`, `CatalogPublish` and `AdminSession` were, are now
proved, and are not checked again.

## 4. Fairness

`QueueStream` states liveness for a device that polls. `WF(GetCursor)`: a
device whose request has ended sends the next one, which is what devices do.
`SF` on each later step of a request: the event loop resumes a coroutine whose
Redis call has returned, and an abort does not strike every request at the
same point for ever. Without strong fairness a device whose every request dies
at its third await never gets anything, which is true of the code and says
nothing about it. Nothing is assumed of publishers, of the operator who
deletes queues, of expiry or of the clock. `EventuallyGiven` says that a live
message is given to each client or ceases to live; `EventuallyAnswered` that
the `while True` of `consume_message` ends.

`StreamMonitor` has `WF(Read)`, the event loop again. Its `ReadsEnd` also
needs that devices do not publish for ever as fast as the dump reads full
pages; the bound `MaxSent` stands for that. Nothing in the code enforces it: a
dump has no cap on its pages.

What these two liveness properties rest on besides fairness, that each round of
a loop gets closer to its end, is a safety property and proved: `LoopAdvances`
for `consume_message`, `EveryReadMovesOn` for both kinds of page.

The other modules are about safety: their handlers have no loops but over
lists they have read, and there is nothing that another request must do for
one to end.

## 5. What is proved

The proofs hold for all values of the constants, under the named assumptions in
each module (`QueueAssumption`, `KvAssumption`, `FormAssumption`,
`FieldAssumption`, `AclAssumption`, `PagesAssumption`, `LogAssumption`,
`MonitorAssumption`, `RegistryAssumption`, `PublishAssumption`,
`SessionAssumption`, `BackupAssumption`), which say only that bounds are
naturals, sets of names are not confused with one another (no value, `None`, in
particular is no number, name or text), lives of cookies, lengths of pages,
batches and logs are not zero, the declarations, typed texts and rows to choose
from are well formed and, for Backup, that what the instance holds first is.
Limits below one, which the routes let a caller ask for, are left out. TLC
evaluates the assumptions in the runs.

**Queues.** `TypeCorrect`; `NeverSkips`, `AckedSurvive`,
`CursorNeverRegresses`, `Implements`, `InOrder`. `NoSkip` is not inductive: a
request carries a position of its own, read long ago, and will write it.
`IInv` adds that ids in the stream are unique and not above `lastId`
(`StreamShape`), that no position is above `issued` (`Positions`), that what
`NoSkip` says of a cursor also holds of the `last` a request carries
(`CarriedNoSkip`) and of everything before the message a request has found
(`HitNoSkip`). The heart is `BatchIsPrefix`: what lies between a position and
an entry of the batch read from there is in the batch, too. `AckedSurvive`
needs the bound on `exp` that each ttl gets when it is capped (`ExpBounded`),
since EXPIRE always sets the full `MaxTtl`. `CursorNeverRegresses`,
`Implements` and `InOrder` assume one slot per client, and show first that a
request in flight is never behind its cursor (`Ahead`).

*The refinement.* `Implements` shows that `QueueStream` implements
`QueueBroadcast`: initial states map to initial states and every step to a
step or a stutter. It needs `RInv`: message numbers follow ids within the
stream (`StreamOrder`), what lies above a client's cursor is newer than all it
was given (`TakenOrder`), and so is the message it is about to be given
(`SetOrder`); what it was given last is newer than all that reached it
(`ReplyOrder`). `InOrder` (`Fifo`) is then proved of the abstract steps alone:
of those only `Receive` appends to `received`.

**Store.** `NoncesAlwaysGrow` from `NInv`: every nonce issued is at most the
counter. `CleanWriteFixesFlag` from `FInv`: a write under way that has not
been torn is alone on its key and still has its own flag to set
(`SoundWrites`), and a key nobody writes, and whose last write was not torn,
has the flag asked for (`QuietKeys`).

**Form.** `FormFlagMatches`: pages, republished catalogs and kept flags are
steps of `FInv`'s kind, so both type correctness and `FlagMatches` carry over.
The specification is not a refinement of `KvStore!Spec` (a form may keep a
flag that a device write always decides), which is why the theorem is proved
from `KvStore`'s lemmas and not by implication.

**ACLs.** `AppendingIsSafe`, `ListingsAgree`, `StashFollowsApp`,
`ScopeIsHonest`, for any set of prefixes and paths and lists of any length.
`ListingsAgree` says that both listings show exactly who may read, that every
writer is shown as one, and that one who is not is shown as one only if an
entry for reading that covers the path stands before one for writing, the one
case in which `list_admins_for_device` says otherwise than `check_acl`. It
needs that some entry covers a path exactly
if a first one does (`LeastPosition`). `UnderTraffic` carries them over to the
system with its logs.

**Fields.** For any set of declarations, typed texts and stored values, not
only the twenty-five of `MCField`. `FieldOK` says that a published declaration
has passed schema and lint (`PublishedOK`), and of an open page (`OpenOK`) that
its declaration is published, that what was edited into it is something its
widget lets through, and that as long as nobody has written since, what the
page was rendered with is what `resolve_value` gives now. The rest is one case
analysis, done once: `WidgetCases` lists the controls `render_widget` can
choose with what they imply of the declaration, `InSpecIsShown` is what each
shows of a value it can hold (a slider keeps a number in its bounds and on its
step: `SliderKeeps`), `ChosenIsInSpec` what each lets through,
`CoercedIsInSpec` the same of `coerce_value`; `DecodedText` and
`DecodedIsInSpec` say what `json.loads` keeps of a text: a number's value, and
for a numeric variable that it is in spec. From these `ShowsOrFlags`,
`EditIsShown`, `UntouchedIsSame` and `CliMatchesPage`. The last speaks, like
the property, of declarations where only a range limits the value:
`coerce_value` does not look at the other hints, and the badge does.

**Logs.** `LogIsHonest` from `LogInvariant`: serial numbers are handed out
once (`RequestsOK`: no two requests under way share one, and none exceeds
`sent`), and what is logged or answered of a request still under way is
what its step says (`EntriesOK`), which makes `LogMatchesAnswers` inductive.
What the steps of one request have in common, whether they go on, fail or break
off, is `RequestStepKeeps`.
Trimming is met once, in `AppendedEntries`: what a trimmed log holds is the
new entry and entries of the old, in their order, and those gone had `LogLen`
newer ones. `LogPagesHonest` takes a page as what it is in the code, positions
picked from a window and cut (`PageOfPicked`).

**Stream pages.** `PagesNewestFirst`, `MonitorMissesNothing`, `DumpsComplete`
from `PagerOK`: ids grow along the stream and are not above `newest`
(`StreamOK`); what a monitor page has found so far is strictly descending, not
below its cursor, and holds every message wanted from there up that was there
when it began and still is (`MonitorOK`); a dump's is strictly ascending, not
above its cursor, and holds every heartbeat still there up to it (`DumpOK`).
Deleting the stream leaves these intact, since they speak of messages that are
still there; publishing does, since new ids lie above both cursors.
`EveryReadMovesOn` adds that a search under way has batches left
(`BatchesOK`).

*Pages* has the lemmas both rest on. `Only(s, K)` is the elements of `s` at
the positions `K`: it has as many elements as `K` (`OnlyEnumerates`), each one
of them and each of them there (`OnlyPicks`), in their order (`OnlyOrdered`).
The definition counts instead of recurring, and so is within reach of proof:
that every rank up to the size of `K` is taken (`Ranks`) follows from an
injection between finite sets of one size being onto.

**Registry.** For any numbers of clients, operators and devices. A secret is
stored before the ACL that goes with it and shown to the operator only after
both, or it would open what the ACL of an earlier holder did. A backup may show
it before that, but then shows the old ACL next to it; a restore brings an old
ACL back. `NothingInherited` rests on three invariants. `BoundInv`: secrets
that are stored, shown or about to be are among those generated, a backup's
secret is known, and a device signs with a known one. `LoneInv`: a restore that
nothing overlaps is alone with its id, and the secret it set is still there
when it sets the ACL. `CoverInv`: the secrets that may meet an id's ACL (the
current one if it was shown, one a provisioning is about to show, a verified
request's; `Acts`) find there nothing but what is meant for them (`Meant`).
Each has one lemma per side, `Admin...` for operators' steps and the shared
`DeviceSteps` for the others. `SecretsLast` and `RevokedOnlyByRecord` are about
ids no two requests overlapped on: each operator is then alone with his id
(`Alone`); what he has read of its secret is still so (`SecretInv`), and the
app a lookup has found is that of a record in `left` (`IndexInv`).

**Publishing.** `LogoStaysStored` from `LogoInv`: what a publish has uploaded
so far is there in bytes and sidecar (`Uploaded`), and from the commit point
on the live catalog is its own (`Committed`), so that the clean-up, which
takes only what the old listing has and the new tree does not, never takes the
live logo. `ListingIsExact` from `Tidy`: at each step of a publish that none
before it spoilt, the files with bytes and with a sidecar are known exactly.
`LogoIsServed`, `BlocksBelong`, `StylesheetsBelong` from `PageInv`: a page no
publish overtook was made from the live catalog; the cache holds for each
catalog that catalog's block.

**Sign-in.** `OnlyProvenEnter` from `ProofInv`: each token in the browser or on
its way goes back to a proof of identity, outlives it by no more than
`TokenLife` and was signed by no later image. `StatesAreSpent` from `TokenInv`:
a state that gave a session has left the jar. `UndisturbedSignInWorks` from
`SignInInv`: what an undisturbed sign-in needs on the host Google leads back to
is in the jar, and both cookies leave it together. `LogoutIsFinal` from
`OutInv`: after a logout only requests sent before it carry cookies.
`AnswersAreTrue` from `HandledWrite`: a handler's outcome decides both whether
the write was carried out and what is said of it, but for a password's caller,
to whom an exception after the work is answered as a challenge.

**Backup.** `TypeCorrect` from `Inv`, which adds what stage a restore and a
collection may be in (`RestShape`). `RestoreIsExact` and `FailuresAreForeign`
from `RestInv`, an account of every item nobody else has touched (`Progress`):
still to be done and as it was; done and as expected; or the one at hand, of
which each stage says which key is written already. For a stream, what has
been added is what is no longer left, and every id added is below every id
left: hence Redis refuses an entry only if another request added to the
stream. `DumpIsExact` from `DumpInv`, the like account of a collection: an
item of a section that is past is in the envelope exactly if it is wanted
(`Final`), one of the section at hand has been found by KEYS and perhaps half
read (`Found`), one of a later section is not in it.

*The round of consume.* `LoopAdvances`, of `QueueStream` again: `XReadExpired`
puts `last` strictly further on and never past the newest id ever given, so
that only publishers can keep a request in its loop. It follows from `IInv`.

Model-checked only: the liveness properties `EventuallyGiven`,
`EventuallyAnswered` and `ReadsEnd`, since ENABLED and fairness are out of the
prover's reach. Every other property of a passing run is the statement of a
theorem. `SessionLasts`, the documented one, is false, and
`session_lifetime` shows it. No definition that a proof depends on is
recursive.

## 6. Disagreements between code and documentation

With a run that shows it:

* `session_lifetime`. The cookie of a Google sign-in is kept for 7 days
  (`routes_oauth.py:204`), the token in it expires after 24 hours
  (`admin_auth.py:134`) and nothing re-issues it;
  `docs/fr_v15_auth.md:174-176` promises seven days, renewed by every request.

Seen while modelling, without a run of their own. In the store and the form:

* A number stored with `X-Encrypted`, or an empty body, makes `read_kv`
  (`routes_device.py:396`) answer 500; `main.py:306` says these paths never
  do.
* Saving a page writes fields nobody touched: `_decode_form_value` turns the
  stored string `"129"` into a number, and a value changed since the page was
  loaded is put back. `touched_state.js:166` says the server preserves it.
* A clean save stores the app's value as the device's override where an app's
  value was shown. The radio branch of `serialize` looks at neither
  `fromDefault` nor `writeOnly`.
* The page and the form ignore a variable's `scope`; `catalog.py:88-91` calls
  `range` exclusive with `min` and `max`, and nothing enforces it; a `pattern`
  is not put on a textarea or a secret.
* A stored boolean written as 0 or 1 is shown as true; "null", saved, is no
  value.
* A number out of spec that nobody touched keeps the whole page from being
  submitted, which `fr_catalog_app_ui.md:313-316` does not say.
* A slider's value off its step is snapped by the browser, and no badge says
  so, since `is_off_spec` does not look at `step`;
  `fr_catalog_app_ui.md:293-295` says such a value is shown as it is.
* Text that JSON reads as something else (`1.10`, `1e5`, a quoted string) is
  rewritten by an untouched save; `fr_catalog_app_ui.md:322` says an untouched
  field is written verbatim.
* A number only Python reads (`+1`) is empty in a number field and in the
  middle of a slider, without a badge; a number off its step holds up the form
  without one, and without a `step` an int's is 1.
* A choice or a text that satisfies its pattern may come back off spec after
  `json.loads`: `1.10` is stored as 1.1.
* `cmd_show` falls back to the app's value when the device's cannot be read.

In the registry and the ACLs:

* Two provisionings at once both see no secret, and the second replaces the
  one the first has handed out (`routes_admin.py:281`, `:324`).
* A lookup after a revoke writes the reverse index back from leftover records
  (`routes_app.py:309`), with no overlap of requests; the comment in
  `revoke_client` (`routes_admin.py:369-373`) says a deleted device does not
  continue to resolve.
* A create that breaks off between its two SETs (`routes_admin.py:258`) over an
  id with permissions leaves the new secret under the old ACL, and a key backup
  hands it out; the comment says "New clients start with no permissions
  (deny-all)" (`:257`).
* `list_admins_for_device` lets the most permissive entry count, `check_acl`
  the first: the list [`r`, `rw`] over a device is shown as `rw` and refused
  the write; the docstring (`routes_admin.py:196-198`) says they have the same
  semantics.
* A restore that breaks off between its two SETs, or overlaps another request
  about the id, can bring an earlier holder's permissions to a newer secret.
* An explicit admin row, even an empty one, wins over the rescue user's
  built-in access, so ordinary edits can leave nobody able to edit rows;
  `dependencies.py:76-80` says it always works regardless of Redis, which is
  read first.
* `*:rw` after a narrower `r` entry is "superadmin" to `routes_admin.py:703`,
  while `check_acl` refuses the narrower path.

In sign-in:

* Under Basic authentication an exception in the handler is swallowed and
  answered as a challenge, after the handler may have done its work.
* A sign-in without `next` ends at the page of an earlier, unfinished one.
* A POST to a device whose path ends in `_theme.css` or lies under `_assets`
  passes the gate and is answered by a bare 401.
* `fr_v15_auth.md:125-126` "Clears the cookie either way": a mismatch keeps
  it.

* Google sign-ins that begin on the device host are always refused: the
  redirect URI is registered for one host (`fr_v15_incremental.md:213`), and
  the state cookie stays behind on the other.

In publishing:

* A publish that dies between steps leaves assets overwritten in place under
  the old catalog; `catalog_publish.py:22-25` calls the earlier one intact.
* `publish_assets` says later publishes reconcile a failed one; once the new
  index is stored, files the clean-up did not reach are named by no index. The
  same after an index that could not be read.
* `routes_app.py:76` says page and stylesheet share a hash by construction; a
  publish between two reads separates them. The logo's address carries no hash
  and is immutable.
* Two publishes at once may leave one's catalog with the other's index.

In logs, queues and backup:

* The activity log can say that a request succeeded that nobody was answered
  (the server stopped or the connection was lost after `main.py:355`), or that
  was answered 500 because the XADD was applied and then raised.
* A page of the activity log is cut to a window before it is filtered: entries
  of a quiet device are crowded out, for filtered wildcard readers first.
* `docs/client_spec.md:43` calls queue messages "removed on read"; the queue
  is a broadcast one, messages stay until they expire, and each client has a
  cursor.
* A publisher that breaks off between XADD and EXPIRE leaves a stream without
  a TTL until the next publish.
* A forced restore into one app replaces the whole activity log
  (`backup_io.py:346`); the docstring (`routes_admin.py:1076`) says only the
  app's slice is imported.
* `backup_format.py:84` says wildcard admins are not in per-app dumps; one
  with both `*` and an entry of the app is.
* A client revoked between KEYS and GET is dumped with the secret `"None"`.
* A restore that broke off between a value and its flag, run again without
  `force_overwrite`, skips the item and leaves it without its flag.

## 7. What is left out

Inside the modelled components: signature arithmetic, the 300-second window on
timestamps and the keystream (pure functions; a request's signature matches or
not), JSON, base64 and msgpack layouts beyond the type distinctions that
matter (string or number, `None` or text), JSON lists and objects, `inf` and
`nan`, numbers with spaces around them, the cookies a browser holds for the
host a sign-in did not begin on, labels, colours and markup, logging
and response wording, and read-only listings that evaluate nothing. Redis is
modelled as single commands on one node with no data loss, as the deployment
has it. Time is one clock in whole seconds that does not go back.

Components not modelled are in `PROJECT.json` with their reasons. The
sanitizers are pure text functions; the device library and the console are
callers whose requests the modules let come in any order; scripts are run by
hand. The command line is modelled where it changes state: `set`, `unset`,
`put`, `delete`, `show`, `catalog lint` and `catalog publish`.

Hazards of the code that no property covers, beyond the three `PROJECT.json`
lists with a note: a response's timestamp comes from the nonce counter in one
place and from the clock in another (`routes_device.py:138`), and the counter
runs ahead of the clock under load (`security.py:37`); the keystream is
limited to 8 KiB (`security.py:67`); a restored topic whose cursors are still
there is not delivered (`backup_io.py:324`); the session of a user whose row
was deleted lasts until it expires (`main.py:207`), though its ACL is gone.

## 8. Plan

Done: sections 2 to 5. What remains, in this order:

1. **Two publishes at once.** `CatalogPublish` with a set of publishers: the
   unlisted asset and the mixed catalog become reachable; to state is what
   holds even then (a stored index names only files some publish uploaded).
2. **Backup with queues.** Cursors that survive a restored topic, over
   `QueueStream`.
3. **Device client** over `QueueStream` and `KvStore`: timeouts and retries,
   so that at-most-once delivery is seen from the device.
4. **An atomic catalog** that `CatalogPublish` implements at its commit point
   when no page load is overtaken, in the manner of `QueueBroadcast`.
