----------------------- MODULE CatalogPublish_proofs -----------------------
(***************************************************************************)
(* Proofs about CatalogPublish for any files, contents, catalogs and local *)
(* trees and any number of publishes: type correctness, what a publish     *)
(* leaves stored at each of its steps, and what the pages show.            *)
(***************************************************************************)
EXTENDS CatalogPublish, TLAPS

Pubs == [step : PubSteps, tree : Trees \cup {NoTree}, old : SUBSET Files,
         left : SUBSET Files, file : Files \cup {None}]
Pages == [step : PageSteps, cat : Catalogs \cup {None}, hash : Themes \cup {None},
          block : Blurbs \cup {None}, css : Themes \cup {None},
          logo : Contents \cup {None}, body : Contents \cup {None},
          managed : BOOLEAN, raced : BOOLEAN]

(* A page's logo is asked for only once it has one.                        *)
PageShape ==
  page.step \in {"logo", "meta"} => page.cat \in Catalogs /\ page.cat.logo \in Files

(* The file a step is about is one of those that are left.                 *)
PubShape ==
  /\ pub.step # "idle" => pub.tree \in Trees /\ Accepts(pub.tree)
  /\ pub.step \notin {"idle", "yaml"} => pub.tree.dir
  /\ pub.step \in {"bytes", "bytesCheck", "meta", "metaCheck"} => pub.left \subseteq Bundle(pub.tree)
  /\ pub.step \in {"bytesCheck", "meta", "metaCheck", "gcMeta"} => pub.file \in pub.left
  /\ pub.step \in {"gcBytes", "gcMeta"} => pub.left \cap Bundle(pub.tree) = {}

Shape == TypeOK /\ PageShape /\ PubShape

---------------------------------------------------------------------------
(* Types and shapes                                                        *)

(* What a tree holds is of the right kind.                                 *)
LEMMA TreeFacts ==
  ASSUME NEW tree \in Trees
  PROVE  /\ tree.assets \in Stored
         /\ tree.catalog \in Catalogs
         /\ tree.dir \in BOOLEAN
         /\ Bundle(tree) \subseteq Files
         /\ \A f \in Bundle(tree) : tree.assets[f] \in Contents
  <1>1. tree \in Tree
    BY PublishAssumption
  <1> QED
    BY <1>1 DEF Tree, Stored, Bundle

(* A catalog's parts are of the right kind.                                *)
LEMMA CatalogFacts ==
  ASSUME NEW c \in Catalogs
  PROVE  /\ c # None
         /\ c.theme \in Themes /\ c.theme # None
         /\ c.blurb \in Blurbs /\ c.blurb # None
         /\ c.logo # None => c.logo \in Files
  BY PublishAssumption DEF Catalogs

(* Browsing and restarts leave the publish alone.                          *)
LEMMA BrowseFrame ==
  ASSUME Browse \/ Restart
  PROVE  UNCHANGED <<store, pub, managed, tidy, count>>
  BY DEF Browse, Restart, OpenPage, RenderPage, CssFromCache, ServeTheme, LogoFromCache,
         ReadAssetBytes, ServeAsset, Leave, vars

(* A publish leaves caches alone, and the page but for marking it.         *)
LEMMA PublishFrame ==
  ASSUME Publish
  PROVE  /\ UNCHANGED <<blocks, css, img, raced>>
         /\ \/ UNCHANGED <<page, catalog, managed>>
            \/ Overtake
  BY DEF Publish, StartPublish, ReadListing, ListingUnread, PutBytes, DeleteBytes, CheckBytes,
         PutMeta, CheckMeta, PutCatalog, CheckCatalog, PutListing, CheckListing, DeleteMeta,
         PutYaml, BreakOff, store, browser

(* An idle publish is well typed.                                          *)
LEMMA IdleType == Idle \in Pubs
  BY DEF Idle, Pubs, PubSteps

(* Nothing is loaded, nothing is published.                                *)
LEMMA InitShape == Init => Shape
  <1> SUFFICES ASSUME Init PROVE Shape
    OBVIOUS
  <1>1. pub \in Pubs
    BY IdleType DEF Init
  <1>2. page \in Pages
    BY DEF Init, Closed, Pages, PageSteps
  <1>3. TypeOK
    BY <1>1, <1>2 DEF Init, TypeOK, Pubs, Pages, Stored
  <1> QED
    BY <1>3 DEF Init, Shape, PageShape, PubShape, Idle, Closed

(* The command line's steps: the publish stays well typed and its file one *)
(* of those that are left.                                                 *)
LEMMA PublishShape ==
  ASSUME Shape, Publish
  PROVE  pub' \in Pubs /\ PubShape'
  <1> USE DEF Pubs, PubSteps
  <1>0. pub \in Pubs /\ PubShape /\ listing \in SUBSET Files
    BY DEF Shape, TypeOK
  <1>1. ASSUME NEW tree \in Trees, StartPublish(tree) PROVE pub' \in Pubs /\ PubShape'
    <2>1. pub' = [step |-> IF tree.dir THEN "read" ELSE "yaml", tree |-> tree, old |-> {},
                  left |-> {}, file |-> None]
      BY <1>1 DEF StartPublish, Idle
    <2>2. pub'.tree \in Trees /\ Accepts(pub'.tree) /\ pub'.step \in {"read", "yaml"}
      BY <1>1, <2>1 DEF StartPublish
    <2>3. pub' \in Pubs
      BY <2>1, <2>2
    <2>4. pub'.step # "yaml" => pub'.tree.dir
      BY <2>1
    <2> QED
      BY <2>2, <2>3, <2>4 DEF PubShape
  <1>2. CASE ReadListing \/ ListingUnread
    <2>1. pub.tree \in Trees /\ Bundle(pub.tree) \subseteq Files
      BY <1>0, <1>2, TreeFacts DEF ReadListing, ListingUnread, PubShape
    <2> QED
      BY <1>0, <1>2, <2>1 DEF ReadListing, ListingUnread, AfterAssets, PubShape
  <1>3. ASSUME NEW f \in Files, PutBytes(f) \/ DeleteBytes(f) PROVE pub' \in Pubs /\ PubShape'
    BY <1>0, <1>3 DEF PutBytes, DeleteBytes, PubShape
  <1>4. CASE CheckBytes \/ PutMeta \/ PutCatalog \/ CheckCatalog \/ PutListing
    BY <1>0, <1>4 DEF CheckBytes, PutMeta, PutCatalog, CheckCatalog, PutListing, PubShape
  <1>5. CASE CheckMeta
    BY <1>0, <1>5 DEF CheckMeta, AfterAssets, PubShape
  <1>6. CASE CheckListing
    BY <1>0, <1>6 DEF CheckListing, AfterGc, Dropped, PubShape
  <1>7. CASE DeleteMeta
    BY <1>0, <1>7 DEF DeleteMeta, AfterGc, PubShape
  <1>8. CASE PutYaml \/ BreakOff
    BY <1>8, IdleType DEF PutYaml, BreakOff, PubShape, Idle
  <1> QED
    BY <1>1, <1>2, <1>3, <1>4, <1>5, <1>6, <1>7, <1>8 DEF Publish

(* What the command line stores is well typed.                             *)
LEMMA PublishStores ==
  ASSUME Shape, Publish
  PROVE  /\ bytes' \in Stored /\ meta' \in Stored
         /\ catalog' \in Catalogs \cup {None} /\ listing' \in SUBSET Files
         /\ managed' \in BOOLEAN /\ tidy' \in BOOLEAN /\ count' \in Nat
  <1>0. /\ pub \in Pubs /\ PubShape /\ bytes \in Stored /\ meta \in Stored /\ count \in Nat
        /\ catalog \in Catalogs \cup {None} /\ listing \in SUBSET Files
        /\ managed \in BOOLEAN /\ tidy \in BOOLEAN
    BY DEF Shape, TypeOK, Pubs
  <1> USE DEF store
  <1>1. CASE \E tree \in Trees : StartPublish(tree)
    BY <1>0, <1>1 DEF StartPublish
  <1>2. ASSUME NEW f \in Files, PutBytes(f) PROVE bytes' \in Stored /\ UNCHANGED <<meta, catalog, listing, managed, tidy, count>>
    <2>1. pub.tree \in Trees
      BY <1>0, <1>2 DEF PutBytes, PubShape
    <2> QED
      BY <1>0, <1>2, <2>1, TreeFacts DEF PutBytes, Stored
  <1>3. ASSUME NEW f \in Files, DeleteBytes(f) PROVE bytes' \in Stored /\ UNCHANGED <<meta, catalog, listing, managed, tidy, count>>
    BY <1>0, <1>3 DEF DeleteBytes, Stored
  <1>4. CASE PutMeta
    <2>1. pub.tree \in Trees /\ pub.file \in Files
      BY <1>0, <1>4 DEF PutMeta, PubShape, Pubs
    <2> QED
      BY <1>0, <1>4, <2>1, TreeFacts DEF PutMeta, Stored
  <1>5. CASE DeleteMeta
    BY <1>0, <1>5 DEF DeleteMeta, Stored
  <1>6. CASE PutCatalog \/ PutYaml
    <2>1. pub.tree \in Trees
      BY <1>0, <1>6 DEF PutCatalog, PutYaml, PubShape
    <2> QED
      BY <1>0, <1>6, <2>1, TreeFacts DEF PutCatalog, PutYaml
  <1>7. CASE PutListing
    BY <1>0, <1>7 DEF PutListing, Bundle
  <1>8. CASE ReadListing \/ ListingUnread \/ CheckBytes \/ CheckMeta \/ CheckCatalog \/ CheckListing \/ BreakOff
    BY <1>0, <1>8 DEF ReadListing, ListingUnread, CheckBytes, CheckMeta, CheckCatalog, CheckListing, BreakOff
  <1> QED
    BY <1>0, <1>1, <1>2, <1>3, <1>4, <1>5, <1>6, <1>7, <1>8 DEF Publish

(* The browser's steps keep page and caches well typed.                    *)
LEMMA BrowseTypes ==
  ASSUME Shape, Browse \/ Restart
  PROVE  /\ page' \in Pages /\ PageShape'
         /\ blocks' \in [Catalogs -> Blurbs \cup {None}]
         /\ css' \in [Themes \cup {None} -> Themes \cup {None}]
         /\ img' \in Stored /\ raced' \subseteq Themes \cup {None}
  <1> USE DEF Pages, PageSteps
  <1>0. /\ page \in Pages /\ PageShape /\ blocks \in [Catalogs -> Blurbs \cup {None}]
        /\ css \in [Themes \cup {None} -> Themes \cup {None}]
        /\ img \in Stored /\ bytes \in Stored /\ raced \subseteq Themes \cup {None}
        /\ catalog \in Catalogs \cup {None} /\ managed \in BOOLEAN
    BY DEF Shape, TypeOK
  <1>t. ThemeNow \in Themes \cup {None}
    BY <1>0, CatalogFacts DEF ThemeNow
  <1>l. /\ LogoStep(page.cat) \in {"logo", "shown"}
        /\ LogoStep(page.cat) = "logo" => page.cat \in Catalogs /\ page.cat.logo \in Files
    BY <1>0, CatalogFacts DEF LogoStep
  <1>1. CASE OpenPage
    BY <1>0, <1>1 DEF OpenPage, Closed, PageShape
  <1>2. CASE RenderPage
    <2>1. page.cat # None => RenderBlock(page.cat) \in Blurbs \cup {None}
      BY <1>0, CatalogFacts DEF RenderBlock, PublishHash
    <2>2. page' \in Pages /\ PageShape'
      BY <1>0, <1>2, <1>t, <2>1 DEF RenderPage, PageShape
    <2>3. blocks' \in [Catalogs -> Blurbs \cup {None}]
      BY <1>0, <1>2, <2>1 DEF RenderPage
    <2> QED
      BY <1>0, <1>2, <2>2, <2>3 DEF RenderPage
  <1>3. CASE CssFromCache
    BY <1>0, <1>3, <1>l DEF CssFromCache, CssKey, PageShape
  <1>4. CASE ServeTheme
    <2>1. page' \in Pages /\ PageShape'
      BY <1>0, <1>4, <1>t, <1>l DEF ServeTheme, PageShape
    <2> QED
      BY <1>0, <1>4, <1>t, <2>1 DEF ServeTheme, CssKey
  <1>5. CASE LogoFromCache
    BY <1>0, <1>5 DEF LogoFromCache, PageShape, Stored
  <1>6. CASE ReadAssetBytes
    BY <1>0, <1>6 DEF ReadAssetBytes, PageShape, Stored
  <1>7. CASE ServeAsset
    <2> DEFINE served == IF meta[page.cat.logo] = None THEN None ELSE page.body
    <2>1. served \in Contents \cup {None}
      BY <1>0
    <2>2. page' \in Pages /\ PageShape'
      BY <1>0, <1>7, <2>1 DEF ServeAsset, PageShape
    <2>3. img' \in Stored
      BY <1>0, <1>7, <2>1 DEF ServeAsset, Stored
    <2>4. UNCHANGED <<blocks, css, raced>>
      BY <1>7 DEF ServeAsset
    <2> QED
      BY <1>0, <2>2, <2>3, <2>4
  <1>8. CASE Leave \/ Restart
    <2>1. Closed \in Pages
      BY DEF Closed
    <2>2. page' \in {Closed, page}
      BY <1>8 DEF Leave, Restart
    <2>3. page' \in Pages /\ PageShape'
      BY <1>0, <2>1, <2>2 DEF PageShape, Closed
    <2>4. blocks' \in [Catalogs -> Blurbs \cup {None}] /\ UNCHANGED <<css, img, raced>>
      BY <1>0, <1>8 DEF Leave, Restart
    <2> QED
      BY <1>0, <2>3, <2>4
  <1> QED
    BY <1>1, <1>2, <1>3, <1>4, <1>5, <1>6, <1>7, <1>8 DEF Browse

(* Every step keeps types and shapes.                                      *)
LEMMA NextShape ==
  ASSUME Shape, [Next]_vars
  PROVE  Shape'
  <1>1. CASE Publish
    <2>1. page' \in Pages /\ PageShape'
      BY <1>1, PublishFrame DEF Shape, TypeOK, Overtake, PageShape, Pages
    <2> QED
      BY <1>1, <2>1, PublishFrame, PublishShape, PublishStores DEF Shape, TypeOK, Pubs, Pages
  <1>2. CASE Browse \/ Restart
    <2>1. UNCHANGED <<bytes, meta, catalog, listing, pub, managed, tidy, count>>
      BY <1>2, BrowseFrame DEF store
    <2>2. PubShape'
      BY <2>1 DEF Shape, PubShape
    <2> QED
      BY <1>2, <2>1, <2>2, BrowseTypes DEF Shape, TypeOK, Pages
  <1>3. CASE UNCHANGED vars
    BY <1>3 DEF vars, store, browser, Shape, TypeOK, PageShape, PubShape
  <1> QED
    BY <1>1, <1>2, <1>3 DEF Next

(* Types and shapes hold throughout.                                       *)
LEMMA ShapeInvariant == Spec => []Shape
  BY InitShape, NextShape, PTL DEF Spec

(* The store, the publish, the caches and the page stay well typed, for    *)
(* any files, trees and number of publishes.                               *)
THEOREM TypeCorrect == Spec => []TypeOK
  BY ShapeInvariant, PTL DEF Shape

---------------------------------------------------------------------------
(* What is stored at each step of a publish                                *)

(* The assets uploaded so far are there, bytes and sidecar.                *)
Uploaded ==
  /\ pub.step \in {"bytes", "bytesCheck", "meta", "metaCheck"} =>
       \A f \in Bundle(pub.tree) \ pub.left : HasAsset(f)
  /\ pub.step \in {"meta", "metaCheck"} => bytes[pub.file] # None
  /\ pub.step \in {"catalog", "catalogCheck", "listing", "listingCheck", "gcBytes", "gcMeta"} =>
       \A f \in Bundle(pub.tree) : HasAsset(f)

(* From the commit point on the live catalog is that of the publish.       *)
Committed ==
  /\ pub.step \in {"catalogCheck", "listing", "listingCheck", "gcBytes", "gcMeta"} =>
       catalog = pub.tree.catalog
  /\ managed => catalog # None

LogoInv == Uploaded /\ Committed /\ LiveLogoStored

(* A publish with assets has its logo among them.                          *)
LEMMA LogoInBundle ==
  ASSUME PubShape, pub.step \notin {"idle", "yaml"}, pub.tree.catalog.logo # None
  PROVE  pub.tree.catalog.logo \in Bundle(pub.tree)
  BY DEF PubShape, Accepts, PassesTheme

(* Nothing is stored, nothing is live.                                     *)
LEMMA InitLogo == Init => LogoInv
  BY DEF Init, LogoInv, Uploaded, Committed, LiveLogoStored, Idle

(* Uploads only add, clean-up only takes what the bundle does not have.    *)
LEMMA NextLogo ==
  ASSUME Shape, LogoInv, [Next]_vars
  PROVE  LogoInv'
  <1> USE DEF LogoInv, Uploaded, Committed, LiveLogoStored, HasAsset, store
  <1>0. /\ pub \in Pubs /\ PubShape /\ bytes \in Stored /\ meta \in Stored
        /\ catalog \in Catalogs \cup {None}
        /\ catalog # None /\ catalog.logo # None => catalog.logo \in Files
    BY CatalogFacts DEF Shape, TypeOK, Pubs
  <1>t. pub.step # "idle" =>
          /\ pub.tree.catalog \in Catalogs /\ pub.tree.catalog # None
          /\ Bundle(pub.tree) \subseteq Files
          /\ \A f \in Bundle(pub.tree) : pub.tree.assets[f] # None
    BY <1>0, TreeFacts, CatalogFacts DEF PubShape, Bundle
  <1>1. CASE \E tree \in Trees : StartPublish(tree)
    BY <1>1 DEF StartPublish, Idle
  <1>2. CASE ReadListing \/ ListingUnread
    <2>1. /\ pub'.step = (IF Bundle(pub.tree) = {} THEN "catalog" ELSE "bytes")
          /\ pub'.left = Bundle(pub.tree) /\ pub'.tree = pub.tree
          /\ UNCHANGED <<bytes, meta, catalog, managed>>
      BY <1>0, <1>2 DEF ReadListing, ListingUnread, AfterAssets, Pubs
    <2> QED
      BY <2>1
  <1>3. ASSUME NEW f \in Files, PutBytes(f) PROVE LogoInv'
    <2>1. /\ bytes' = [bytes EXCEPT ![f] = pub.tree.assets[f]]
          /\ pub.tree.assets[f] # None
          /\ UNCHANGED <<meta, catalog, managed>>
      BY <1>0, <1>t, <1>3 DEF PutBytes, PubShape
    <2>2. \A g \in Files : HasAsset(g) => HasAsset(g)'
      BY <1>0, <2>1 DEF Stored
    <2>3. LiveLogoStored'
      BY <1>0, <2>1, <2>2
    <2> QED
      BY <1>0, <1>t, <1>3, <2>1, <2>2, <2>3 DEF PutBytes, Pubs
  <1>4. CASE CheckBytes
    BY <1>0, <1>t, <1>4 DEF CheckBytes, PubShape, Pubs
  <1>5. CASE PutMeta
    <2>1. /\ meta' = [meta EXCEPT ![pub.file] = pub.tree.assets[pub.file]]
          /\ pub.tree.assets[pub.file] # None
          /\ UNCHANGED <<bytes, catalog, managed>>
      BY <1>0, <1>t, <1>5 DEF PutMeta, PubShape
    <2>2. \A g \in Files : HasAsset(g) => HasAsset(g)'
      BY <1>0, <2>1 DEF Stored
    <2>3. LiveLogoStored'
      BY <1>0, <2>1, <2>2
    <2> QED
      BY <1>0, <1>t, <1>5, <2>1, <2>2, <2>3 DEF PutMeta, Pubs
  <1>6. CASE CheckMeta
    <2>1. meta[pub.file] # None /\ bytes[pub.file] # None
      BY <1>0, <1>t, <1>6 DEF CheckMeta, PubShape
    <2> QED
      BY <1>0, <1>t, <1>6, <2>1 DEF CheckMeta, AfterAssets, Pubs
  <1>7. CASE PutCatalog
    <2>1. LiveLogoStored'
      BY <1>0, <1>t, <1>7, LogoInBundle DEF PutCatalog
    <2> QED
      BY <1>0, <1>t, <1>7, <2>1 DEF PutCatalog, Pubs
  <1>8. CASE CheckCatalog \/ PutListing
    BY <1>0, <1>8 DEF CheckCatalog, PutListing, Pubs
  <1>9. CASE CheckListing
    BY <1>0, <1>9 DEF CheckListing, AfterGc, Pubs
  <1>10. ASSUME NEW f \in Files, DeleteBytes(f) PROVE LogoInv'
    <2>1. f \notin Bundle(pub.tree)
      BY <1>0, <1>10 DEF DeleteBytes, PubShape
    <2>2. \A g \in Files \ {f} : HasAsset(g) => HasAsset(g)'
      BY <1>0, <1>10 DEF DeleteBytes, Stored
    <2>3. LiveLogoStored'
      BY <1>0, <1>t, <1>10, <2>1, <2>2, LogoInBundle DEF DeleteBytes
    <2> QED
      BY <1>0, <1>t, <1>10, <2>1, <2>2, <2>3 DEF DeleteBytes, Pubs
  <1>11. CASE DeleteMeta
    <2>1. pub.file \notin Bundle(pub.tree) /\ pub.file \in Files
      BY <1>0, <1>11 DEF DeleteMeta, PubShape, Pubs
    <2>2. \A g \in Files \ {pub.file} : HasAsset(g) => HasAsset(g)'
      BY <1>0, <1>11 DEF DeleteMeta, Stored
    <2>3. LiveLogoStored'
      BY <1>0, <1>t, <1>11, <2>1, <2>2, LogoInBundle DEF DeleteMeta
    <2> QED
      BY <1>0, <1>t, <1>11, <2>1, <2>2, <2>3 DEF DeleteMeta, AfterGc, Pubs
  <1>12. CASE PutYaml \/ BreakOff
    BY <1>12 DEF PutYaml, BreakOff, Idle
  <1>13. CASE Browse \/ Restart
    BY <1>13, BrowseFrame
  <1>14. CASE UNCHANGED vars
    BY <1>14 DEF vars
  <1> QED
    BY <1>1, <1>2, <1>3, <1>4, <1>5, <1>6, <1>7, <1>8, <1>9, <1>10, <1>11, <1>12, <1>13, <1>14
    DEF Next, Publish

(* A catalog published with its assets has its logo stored, bytes and      *)
(* sidecar, at every moment of any number of publishes of any trees,       *)
(* wherever each of them breaks off.                                       *)
THEOREM LogoStaysStored == Spec => []LiveLogoStored
  <1>1. Init => LogoInv
    BY InitLogo
  <1>2. Shape /\ LogoInv /\ [Next]_vars => LogoInv'
    BY NextLogo
  <1>3. LogoInv => LiveLogoStored
    BY DEF LogoInv
  <1> QED
    BY <1>1, <1>2, <1>3, ShapeInvariant, PTL DEF Spec

---------------------------------------------------------------------------
(* What the listing collects                                               *)

(* The files with bytes are those of S, the files with a sidecar those of  *)
(* T.                                                                      *)
Exactly(S, T) ==
  \A f \in Files : (bytes[f] # None) = (f \in S) /\ (meta[f] # None) = (f \in T)

Done == Bundle(pub.tree) \ pub.left

(* While no publish broke off, what is stored at each step of one.         *)
Collected ==
  /\ pub.step \in {"idle", "read", "yaml"} => Exactly(listing, listing)
  /\ pub.step \in {"bytes", "bytesCheck", "meta", "metaCheck", "catalog", "catalogCheck", "listing"}
       => pub.old = listing
  /\ pub.step = "bytes" => Exactly(listing \cup Done, listing \cup Done)
  /\ pub.step \in {"bytesCheck", "meta"} =>
       Exactly(listing \cup Done \cup {pub.file}, listing \cup Done)
  /\ pub.step = "metaCheck" =>
       Exactly(listing \cup Done \cup {pub.file}, listing \cup Done \cup {pub.file})
  /\ pub.step \in {"catalog", "catalogCheck", "listing"} =>
       Exactly(listing \cup Bundle(pub.tree), listing \cup Bundle(pub.tree))
  /\ pub.step \in {"listingCheck", "gcBytes", "gcMeta"} => listing = Bundle(pub.tree)
  /\ pub.step = "listingCheck" => Exactly(listing \cup pub.old, listing \cup pub.old)
  /\ pub.step = "gcBytes" => Exactly(listing \cup pub.left, listing \cup pub.left)
  /\ pub.step = "gcMeta" =>
       Exactly((listing \cup pub.left) \ {pub.file}, listing \cup pub.left)

Tidy == tidy => Collected

(* Nothing is listed, nothing is stored.                                   *)
LEMMA InitTidy == Init => Tidy
  BY DEF Init, Tidy, Collected, Exactly, Idle

(* What is stored changes as the listing's diff says, while no publish     *)
(* breaks off.                                                             *)
LEMMA NextTidy ==
  ASSUME Shape, Tidy, [Next]_vars
  PROVE  Tidy'
  <1> USE DEF Exactly, Done, store
  <1>0. /\ pub \in Pubs /\ PubShape /\ bytes \in Stored /\ meta \in Stored
        /\ listing \in SUBSET Files
    BY DEF Shape, TypeOK, Pubs
  <1>t. pub.step # "idle" =>
          /\ Bundle(pub.tree) \subseteq Files
          /\ \A f \in Bundle(pub.tree) : pub.tree.assets[f] # None
    BY <1>0, TreeFacts DEF PubShape, Bundle
  <1> SUFFICES ASSUME tidy' PROVE Collected'
    BY DEF Tidy
  <1>c. CASE tidy /\ Collected
    <2>1. ASSUME NEW tree \in Trees, StartPublish(tree) PROVE Collected'
      <3>1. pub'.step \in {"read", "yaml"} /\ UNCHANGED <<bytes, meta, listing>> /\ pub.step = "idle"
        BY <2>1 DEF StartPublish, Idle
      <3> QED
        BY <1>c, <3>1 DEF Collected
    <2>2. CASE ReadListing
      <3>1. /\ pub'.step = (IF Bundle(pub.tree) = {} THEN "catalog" ELSE "bytes")
            /\ pub'.left = Bundle(pub.tree) /\ pub'.tree = pub.tree /\ pub'.old = listing
            /\ UNCHANGED <<bytes, meta, listing>> /\ pub.step = "read"
        BY <1>0, <2>2 DEF ReadListing, AfterAssets, Pubs
      <3> QED
        BY <1>c, <3>1 DEF Collected
    <2>3. CASE ListingUnread \/ BreakOff
      BY <2>3 DEF ListingUnread, BreakOff
    <2>4. ASSUME NEW f \in Files, PutBytes(f) PROVE Collected'
      <3>1. /\ pub'.step = "bytesCheck" /\ pub'.file = f /\ pub'.left = pub.left
            /\ pub'.tree = pub.tree /\ pub'.old = pub.old
            /\ UNCHANGED <<meta, listing>> /\ pub.step = "bytes"
        BY <1>0, <2>4 DEF PutBytes, Pubs
      <3>2. /\ bytes'[f] # None /\ f \in Files
            /\ \A g \in Files \ {f} : bytes'[g] = bytes[g]
        BY <1>0, <1>t, <2>4 DEF PutBytes, PubShape, Stored
      <3> QED
        BY <1>c, <3>1, <3>2 DEF Collected
    <2>5. CASE CheckBytes
      <3>1. /\ pub'.step = "meta" /\ pub'.file = pub.file /\ pub'.left = pub.left
            /\ pub'.tree = pub.tree /\ pub'.old = pub.old
            /\ UNCHANGED <<bytes, meta, listing>> /\ pub.step = "bytesCheck"
        BY <1>0, <2>5 DEF CheckBytes, Pubs
      <3> QED
        BY <1>c, <3>1 DEF Collected
    <2>6. CASE PutMeta
      <3>1. /\ pub'.step = "metaCheck" /\ pub'.file = pub.file /\ pub'.left = pub.left
            /\ pub'.tree = pub.tree /\ pub'.old = pub.old
            /\ UNCHANGED <<bytes, listing>> /\ pub.step = "meta"
        BY <1>0, <2>6 DEF PutMeta, Pubs
      <3>2. /\ meta'[pub.file] # None /\ pub.file \in Files
            /\ \A g \in Files \ {pub.file} : meta'[g] = meta[g]
        BY <1>0, <1>t, <2>6 DEF PutMeta, PubShape, Stored
      <3> QED
        BY <1>c, <3>1, <3>2 DEF Collected
    <2>7. CASE CheckMeta
      <3>1. /\ pub'.step = (IF pub.left \ {pub.file} = {} THEN "catalog" ELSE "bytes")
            /\ pub'.left = pub.left \ {pub.file}
            /\ pub'.tree = pub.tree /\ pub'.old = pub.old
            /\ UNCHANGED <<bytes, meta, listing>> /\ pub.step = "metaCheck"
        BY <1>0, <2>7 DEF CheckMeta, AfterAssets, Pubs
      <3>2. pub.file \in Bundle(pub.tree)
        BY <1>0, <3>1 DEF PubShape
      <3>3. (Bundle(pub.tree) \ pub.left) \cup {pub.file} = Bundle(pub.tree) \ (pub.left \ {pub.file})
        BY <3>2
      <3> QED
        BY <1>c, <3>1, <3>2, <3>3 DEF Collected
    <2>8. CASE PutCatalog \/ CheckCatalog
      <3>1. /\ pub'.step \in {"catalogCheck", "listing"}
            /\ pub'.tree = pub.tree /\ pub'.old = pub.old
            /\ UNCHANGED <<bytes, meta, listing>> /\ pub.step \in {"catalog", "catalogCheck"}
        BY <1>0, <2>8 DEF PutCatalog, CheckCatalog, Pubs
      <3> QED
        BY <1>c, <3>1 DEF Collected
    <2>9. CASE PutListing
      <3>1. /\ pub'.step = "listingCheck" /\ listing' = Bundle(pub.tree)
            /\ pub'.tree = pub.tree /\ pub'.old = pub.old
            /\ UNCHANGED <<bytes, meta>> /\ pub.step = "listing"
        BY <1>0, <2>9 DEF PutListing, Pubs
      <3> QED
        BY <1>c, <3>1 DEF Collected
    <2>10. CASE CheckListing
      <3>1. /\ pub'.step = (IF pub.old \ Bundle(pub.tree) = {} THEN "idle" ELSE "gcBytes")
            /\ pub'.left = pub.old \ Bundle(pub.tree) /\ pub'.tree = pub.tree
            /\ UNCHANGED <<bytes, meta, listing>> /\ pub.step = "listingCheck"
        BY <1>0, <2>10 DEF CheckListing, AfterGc, Dropped, Pubs
      <3> QED
        BY <1>c, <3>1 DEF Collected
    <2>11. ASSUME NEW f \in Files, DeleteBytes(f) PROVE Collected'
      <3>1. /\ pub'.step = "gcMeta" /\ pub'.file = f /\ pub'.left = pub.left
            /\ pub'.tree = pub.tree
            /\ UNCHANGED <<meta, listing>> /\ pub.step = "gcBytes"
        BY <1>0, <2>11 DEF DeleteBytes, Pubs
      <3>2. bytes'[f] = None /\ \A g \in Files \ {f} : bytes'[g] = bytes[g]
        BY <1>0, <2>11 DEF DeleteBytes, Stored
      <3> QED
        BY <1>c, <3>1, <3>2 DEF Collected
    <2>12. CASE DeleteMeta
      <3>1. /\ pub'.step = (IF pub.left \ {pub.file} = {} THEN "idle" ELSE "gcBytes")
            /\ pub'.left = pub.left \ {pub.file} /\ pub'.tree = pub.tree
            /\ UNCHANGED <<bytes, listing>> /\ pub.step = "gcMeta"
        BY <1>0, <2>12 DEF DeleteMeta, AfterGc, Pubs
      <3>2. pub.file \in Files /\ pub.file \notin Bundle(pub.tree)
        BY <1>0, <3>1 DEF PubShape, Pubs
      <3>3. meta'[pub.file] = None /\ \A g \in Files \ {pub.file} : meta'[g] = meta[g]
        BY <1>0, <2>12, <3>2 DEF DeleteMeta, Stored
      <3>4. listing = Bundle(pub.tree)
        BY <1>c, <3>1 DEF Collected
      <3> QED
        BY <1>c, <3>1, <3>2, <3>3, <3>4 DEF Collected
    <2>13. CASE PutYaml
      <3>1. pub'.step = "idle" /\ UNCHANGED <<bytes, meta, listing>> /\ pub.step = "yaml"
        BY <2>13 DEF PutYaml, Idle
      <3> QED
        BY <1>c, <3>1 DEF Collected
    <2>14. CASE UNCHANGED <<bytes, meta, listing, pub>>
      BY <1>c, <2>14 DEF Collected
    <2>15. Browse \/ Restart \/ UNCHANGED vars => UNCHANGED <<bytes, meta, listing, pub>>
      BY BrowseFrame DEF vars
    <2> QED
      BY <2>1, <2>2, <2>3, <2>4, <2>5, <2>6, <2>7, <2>8, <2>9, <2>10, <2>11, <2>12, <2>13,
         <2>14, <2>15
      DEF Next, Publish
  <1>u. tidy' => tidy
    BY DEF Next, Publish, StartPublish, ReadListing, ListingUnread, PutBytes, DeleteBytes,
           CheckBytes, PutMeta, CheckMeta, PutCatalog, CheckCatalog, PutListing, CheckListing,
           DeleteMeta, PutYaml, BreakOff, Browse, OpenPage, RenderPage, CssFromCache, ServeTheme,
           LogoFromCache, ReadAssetBytes, ServeAsset, Leave, Restart, vars
  <1> QED
    BY <1>c, <1>u DEF Tidy

(* As long as every publish ran to its end, what is stored between         *)
(* publishes is what is listed: no orphan, no hole, no half asset.         *)
THEOREM ListingIsExact == Spec => []ListedIsStored
  <1>1. Init => Tidy
    BY InitTidy
  <1>2. Shape /\ Tidy /\ [Next]_vars => Tidy'
    BY NextTidy
  <1>3. Tidy => ListedIsStored
    BY DEF Tidy, Collected, Exactly, ListedIsStored
  <1> QED
    BY <1>1, <1>2, <1>3, ShapeInvariant, PTL DEF Spec

---------------------------------------------------------------------------
(* What the pages show                                                     *)

(* A page no publish overtook was made from the live catalog; the bytes    *)
(* its logo was read with were there.                                      *)
Current ==
  page.step # "closed" /\ ~page.raced =>
    /\ page.cat = catalog /\ page.managed = managed
    /\ page.step = "css" => page.hash = ThemeNow
    /\ page.step = "meta" /\ managed => page.body # None

(* The markdown cache holds for each catalog that catalog's block.         *)
BlocksOwn == \A c \in Catalogs : blocks[c] \in {None, c.blurb}
BlockOwn == page.block # None => page.cat \in Catalogs /\ page.block = page.cat.blurb

PageInv ==
  Current /\ BlocksOwn /\ BlockOwn /\ StylesheetUnlessRaced /\ RenderedLogoServed

(* Nothing is shown, nothing is cached.                                    *)
LEMMA InitPage == Init => PageInv
  BY DEF Init, PageInv, Current, BlocksOwn, BlockOwn, StylesheetUnlessRaced, RenderedLogoServed,
         Closed

(* A publish either leaves the page and its catalog alone or marks it.     *)
LEMMA PublishPage ==
  ASSUME Shape, PageInv, Publish
  PROVE  PageInv'
  <1> USE DEF PageInv, Current, BlocksOwn, BlockOwn, StylesheetUnlessRaced, RenderedLogoServed
  <1>1. CASE UNCHANGED <<page, catalog, managed>>
    <2>1. UNCHANGED <<page, catalog, managed, blocks, css, raced>>
      BY <1>1, PublishFrame
    <2> QED
      BY <2>1 DEF ThemeNow
  <1>2. CASE Overtake
    <2>1. /\ UNCHANGED <<blocks, css, raced>>
          /\ page'.raced = (page.step # "closed") /\ page'.step = page.step
          /\ page'.block = page.block /\ page'.cat = page.cat
      BY <1>2, PublishFrame DEF Overtake, Shape, TypeOK
    <2> QED
      BY <2>1
  <1> QED
    BY <1>1, <1>2, PublishFrame

(* A page is made of what is live, or of caches of it.                     *)
LEMMA BrowsePage ==
  ASSUME Shape, LogoInv, PageInv, Browse \/ Restart
  PROVE  PageInv'
  <1> USE DEF Pages
  <1>0. /\ page \in Pages /\ PageShape /\ blocks \in [Catalogs -> Blurbs \cup {None}]
        /\ css \in [Themes \cup {None} -> Themes \cup {None}]
        /\ catalog \in Catalogs \cup {None} /\ img \in Stored
        /\ LiveLogoStored /\ (managed => catalog # None)
        /\ Current /\ BlocksOwn /\ BlockOwn /\ StylesheetUnlessRaced /\ RenderedLogoServed
    BY DEF Shape, TypeOK, LogoInv, Committed, PageInv
  <1>f. UNCHANGED <<catalog, managed, bytes, meta>>
    BY BrowseFrame DEF store
  <1>l. LogoStep(page.cat) = "shown" => page.cat = None \/ page.cat.logo = None
    BY DEF LogoStep
  <1>1. CASE OpenPage
    <2>1. /\ page'.step = "hash" /\ page'.cat = catalog /\ page'.managed = managed
          /\ page'.block = None /\ UNCHANGED <<blocks, css, raced>>
      BY <1>1 DEF OpenPage, Closed
    <2> QED
      BY <1>0, <1>f, <2>1 DEF PageInv, Current, BlocksOwn, BlockOwn, StylesheetUnlessRaced,
                              RenderedLogoServed
  <1>2. CASE RenderPage
    <2>1. /\ page'.step = "css" /\ page'.cat = page.cat /\ page'.managed = page.managed
          /\ page'.raced = page.raced /\ page'.hash = ThemeNow
          /\ page'.block = (IF page.cat = None THEN None ELSE RenderBlock(page.cat))
          /\ page.step = "hash" /\ UNCHANGED <<css, raced>>
      BY <1>0, <1>2 DEF RenderPage
    <2>2. page.cat # None => page.cat \in Catalogs /\ RenderBlock(page.cat) = page.cat.blurb
      BY <1>0 DEF RenderBlock, PublishHash, BlocksOwn
    <2>3. BlocksOwn'
      BY <1>0, <1>2, <2>2 DEF RenderPage, BlocksOwn, PublishHash
    <2>4. BlockOwn'
      BY <1>0, <2>1, <2>2 DEF BlockOwn
    <2>5. Current'
      BY <1>0, <1>f, <2>1 DEF Current, ThemeNow
    <2> QED
      BY <1>0, <2>1, <2>3, <2>4, <2>5 DEF PageInv, StylesheetUnlessRaced, RenderedLogoServed
  <1>3. CASE CssFromCache \/ ServeTheme
    <2>1. /\ page'.step = LogoStep(page.cat) /\ page'.cat = page.cat
          /\ page'.managed = page.managed /\ page'.raced = page.raced
          /\ page'.block = page.block
          /\ page.step = "css" /\ UNCHANGED blocks
      BY <1>0, <1>3 DEF CssFromCache, ServeTheme
    <2>2. BlocksOwn' /\ BlockOwn'
      BY <1>0, <2>1 DEF BlocksOwn, BlockOwn
    <2>3. Current' /\ RenderedLogoServed'
      BY <1>0, <1>f, <1>l, <2>1 DEF Current, RenderedLogoServed, LogoStep
    <2>4. StylesheetUnlessRaced'
      <3>1. CASE CssFromCache
        BY <1>0, <3>1 DEF CssFromCache, StylesheetUnlessRaced
      <3>2. CASE ServeTheme
        <4>1. /\ css' = [css EXCEPT ![page.hash] = ThemeNow]
              /\ raced' = IF page.raced THEN raced \cup {page.hash} ELSE raced
              /\ page.hash \in Themes \cup {None}
          BY <1>0, <3>2 DEF ServeTheme, CssKey
        <4>2. ~page.raced => page.hash = ThemeNow
          BY <1>0, <2>1 DEF Current
        <4> QED
          BY <1>0, <4>1, <4>2 DEF StylesheetUnlessRaced
      <3> QED
        BY <1>3, <3>1, <3>2
    <2> QED
      BY <2>2, <2>3, <2>4 DEF PageInv
  <1>4. CASE LogoFromCache
    <2>1. /\ page'.step = "shown" /\ page'.cat = page.cat /\ page'.managed = page.managed
          /\ page'.raced = page.raced /\ page'.block = page.block /\ page'.logo # None
          /\ page.step = "logo" /\ UNCHANGED <<blocks, css, raced>>
      BY <1>0, <1>4 DEF LogoFromCache
    <2> QED
      BY <1>0, <1>f, <2>1 DEF PageInv, Current, BlocksOwn, BlockOwn, StylesheetUnlessRaced,
                              RenderedLogoServed
  <1>5. CASE ReadAssetBytes
    <2>1. /\ page'.step = "meta" /\ page'.cat = page.cat /\ page'.managed = page.managed
          /\ page'.raced = page.raced /\ page'.block = page.block
          /\ page'.body = bytes[page.cat.logo]
          /\ page.step = "logo" /\ UNCHANGED <<blocks, css, raced>>
      BY <1>0, <1>5 DEF ReadAssetBytes
    <2>2. page.cat # None /\ page.cat.logo # None
      BY <1>0, <2>1, CatalogFacts, PublishAssumption DEF PageShape
    <2>3. ~page.raced /\ managed => page'.body # None
      BY <1>0, <2>1, <2>2 DEF Current, LiveLogoStored, HasAsset
    <2> QED
      BY <1>0, <1>f, <2>1, <2>3 DEF PageInv, Current, BlocksOwn, BlockOwn, StylesheetUnlessRaced,
                                    RenderedLogoServed
  <1>6. CASE ServeAsset
    <2>1. /\ page'.step = "shown" /\ page'.cat = page.cat /\ page'.managed = page.managed
          /\ page'.raced = page.raced /\ page'.block = page.block
          /\ page'.logo = (IF meta[page.cat.logo] = None THEN None ELSE page.body)
          /\ page.step = "meta" /\ UNCHANGED <<blocks, css, raced>>
      BY <1>0, <1>6 DEF ServeAsset
    <2>2. page.cat.logo # None
      BY <1>0, <2>1, PublishAssumption DEF PageShape
    <2>3. ~page.raced /\ managed => page'.logo # None
      BY <1>0, <2>1, <2>2 DEF Current, LiveLogoStored, HasAsset
    <2> QED
      BY <1>0, <1>f, <2>1, <2>3 DEF PageInv, Current, BlocksOwn, BlockOwn, StylesheetUnlessRaced,
                                    RenderedLogoServed
  <1>7. CASE Leave
    <2>1. page'.step = "closed" /\ page'.block = None /\ UNCHANGED <<blocks, css, raced>>
      BY <1>7 DEF Leave, Closed
    <2> QED
      BY <1>0, <2>1 DEF PageInv, Current, BlocksOwn, BlockOwn, StylesheetUnlessRaced,
                        RenderedLogoServed
  <1>8. CASE Restart
    <2>1. /\ blocks' = [c \in Catalogs |-> None] /\ UNCHANGED <<css, raced>>
          /\ page' \in {page, Closed}
      BY <1>8 DEF Restart
    <2>2. Current' /\ BlockOwn' /\ RenderedLogoServed'
      BY <1>0, <1>f, <2>1 DEF Current, BlockOwn, RenderedLogoServed, Closed, ThemeNow
    <2> QED
      BY <1>0, <2>1, <2>2 DEF PageInv, BlocksOwn, StylesheetUnlessRaced
  <1> QED
    BY <1>1, <1>2, <1>3, <1>4, <1>5, <1>6, <1>7, <1>8 DEF Browse

(* The pages' invariant, of types, shapes and what is stored.              *)
LEMMA PageInvariant == Spec => []PageInv
  <1>1. Init => LogoInv /\ PageInv
    BY InitLogo, InitPage
  <1>2. ASSUME Shape, LogoInv, PageInv, [Next]_vars PROVE LogoInv' /\ PageInv'
    <2>1. CASE UNCHANGED vars
      BY <1>2, <2>1, NextLogo DEF vars, store, browser, PageInv, Current, BlocksOwn, BlockOwn,
         StylesheetUnlessRaced, RenderedLogoServed, ThemeNow
    <2> QED
      BY <1>2, <2>1, NextLogo, PublishPage, BrowsePage DEF Next
  <1> QED
    BY <1>1, <1>2, ShapeInvariant, PTL DEF Spec

(* A page that no publish overtook shows its logo, whatever is uploaded or *)
(* collected between its three reads.                                      *)
THEOREM LogoIsServed == Spec => []RenderedLogoServed
  BY PageInvariant, PTL DEF PageInv

(* The markdown cache never shows a block on another catalog's page.       *)
THEOREM BlocksBelong == Spec => []BlockOfItsCatalog
  <1>1. PageInv => BlockOfItsCatalog
    BY DEF PageInv, BlockOwn, BlockOfItsCatalog
  <1> QED
    BY <1>1, PageInvariant, PTL

(* Every stylesheet a browser keeps for a year is the one of its hash, but *)
(* for those fetched across a publish.                                     *)
THEOREM StylesheetsBelong == Spec => []StylesheetUnlessRaced
  BY PageInvariant, PTL DEF PageInv
=============================================================================
