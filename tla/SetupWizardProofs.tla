--------------------------- MODULE SetupWizardProofs ---------------------------
(***************************************************************************)
(* What the wizard lists as imported is on the device, and a new facility  *)
(* is set up only when every question about it was gone through: proofs    *)
(* for any accounts, facilities and requests, and any number of failures,  *)
(* reloads, restarts and steps back.                                       *)
(*                                                                         *)
(* The context is only changed by events that come to the page, so what it *)
(* holds is read off the page: Fits says what each page can rely on, also  *)
(* when the event was the answer to a request of another page.             *)
(***************************************************************************)
EXTENDS SetupWizard, TLAPS

-----------------------------------------------------------------------------
(* The invariant.                                                          *)

PersonalPages == {"defaultLanguage", "createOnMyOwnAccount"}
NewPages == Questions \cup {"personalDataConsent", "createSuperuserAndFacility"}

\* the questions that were gone through before page p is shown
AnsweredBefore(p) ==
    CASE p = "guestAccess" -> {"setFacilityPermissions"}
      [] p = "createLearnerAccount" -> {"setFacilityPermissions", "guestAccess"}
      [] p = "requirePassword" ->
             {"setFacilityPermissions", "guestAccess", "createLearnerAccount"}
      [] p \in {"personalDataConsent", "createSuperuserAndFacility"} -> Questions
      [] OTHER -> {}

\* The end of the setup of a new facility.
SetUp(c) ==
    c.use = "group" /\ c.device = "full" /\ c.facilityNewOrImport = "new" =>
        /\ Questions \subseteq c.answers \cup c.blank
        /\ c.superuser = Own \/ "createSuperuserAndFacility" \in c.blank

\* What page p knows of the context c, whichever way it was reached.
Fits(p, c) ==
    /\ p \in PersonalPages => c.use = "personal"
    /\ p = "fullDeviceNewOrImportFacility" => c.device = "full"
    /\ p \in NewPages => c.device = "full" /\ c.facilityNewOrImport = "new"
    /\ p \in ImportPages => c.device = "full" /\ c.facilityNewOrImport = "import"
    /\ p \in LodPages => c.device = "lod"
    /\ AnsweredBefore(p) \subseteq c.answers \cup c.blank
    /\ p = "finalizeSetup" => SetUp(c)

\* The page and the context are what a reload resumes.
SavedIsShown ==
    \/ page = "gone"
    \/ saved = None /\ page = "howAreYouUsingKolibri" /\ ctx = initialContext
    \/ saved = [page |-> page, ctx |-> ctx]

UserPages == {"lodImportUserAuth", "lodImportAsAdmin", "lodJoinFacility"}

\* What is known of a request and its task, when h is on the device.
Holds(t, h) ==
    /\ t.state # "none" \/ t.answer # "none" => t.of \in Imports /\ t.facility \in Facilities
    /\ t.state = "completed" => t.of \in h
    /\ t.answer # "none" /\ t.from \in UserPages => t.of \in Users

WizardTypes ==
    /\ page \in Pages /\ ctx \in Contexts
    /\ saved = None \/ saved \in [page : Pages, ctx : Contexts]
    /\ residue \subseteq Users /\ shared \in BOOLEAN /\ typed \in Names \cup {None}

\* The wizard in the browser.
WizardInv == WizardTypes /\ SavedIsShown /\ Fits(page, ctx) /\ ImportedAreHere

PageTypes ==
    /\ shown \in {"none", "running", "completed", "failed"}
    /\ polling \in {"on", "off", "lost"} /\ following \in BOOLEAN
    /\ importing \subseteq Requests /\ post \in {"idle", "asked", "done", "refused"}

OtherTypes ==
    /\ clears \subseteq ClearRequests /\ coreError \in BOOLEAN
    /\ osUser \in BOOLEAN /\ detours \in 0..MaxDetours

\* The server.
ServerInv ==
    /\ tasks \in [Requests -> Tasks] /\ here \subseteq Imports
    /\ provisioned = None \/ provisioned \in Payloads
    /\ \A r \in Requests : Holds(tasks[r], here)

Inv == WizardInv /\ PageTypes /\ OtherTypes /\ ServerInv

-----------------------------------------------------------------------------
(* Steps of one part.                                                      *)

\* The parts of the invariant that most steps need.
LEMMA Parts ==
    ASSUME Inv
    PROVE  /\ WizardInv /\ WizardTypes /\ PageTypes /\ OtherTypes /\ ServerInv
           /\ ctx \in Contexts /\ page \in Pages /\ Fits(page, ctx) /\ SavedIsShown
           /\ ctx.importedUsers \subseteq here /\ residue \subseteq here
           /\ residue \subseteq Users /\ ctx.importedUsers \subseteq Users
<1>1. WizardInv /\ WizardTypes /\ PageTypes /\ OtherTypes /\ ServerInv
  BY DEF Inv, WizardInv
<1>2. ctx \in Contexts /\ page \in Pages /\ residue \subseteq Users
  BY <1>1 DEF WizardTypes
<1>3. ctx.importedUsers \subseteq Users
  BY <1>2 DEF Contexts
<1> QED BY <1>1, <1>2, <1>3 DEF WizardInv, ImportedAreHere

\* The pages that rely on nothing.
LEMMA FreePages ==
    ASSUME NEW p \in {"howAreYouUsingKolibri", "deviceName", "fullOrLearnOnlyDevice", "gone",
                      "nowhere"},
           NEW c
    PROVE  Fits(p, c)
BY DEF Fits, PersonalPages, NewPages, Questions, ImportPages, LodPages, AnsweredBefore

\* The pages of the setup of a learn-only device rely on the kind of the device.
LEMMA LodFits ==
    ASSUME NEW p \in LodPages, NEW c, c.device = "lod"
    PROVE  Fits(p, c) /\ p \in Pages \ {"gone"}
BY DEF Fits, PersonalPages, NewPages, Questions, ImportPages, LodPages, AnsweredBefore, Pages

\* The end, of a setup that is not one of a new facility.
LEMMA EndFits ==
    ASSUME NEW c, c.use = "personal" \/ c.device = "lod" \/ c.facilityNewOrImport = "import"
    PROVE  Fits("finalizeSetup", c) /\ "finalizeSetup" \in Pages \ {"gone"}
BY DEF Fits, PersonalPages, NewPages, Questions, ImportPages, LodPages, AnsweredBefore, Pages,
   SetUp

\* A step to page p with the context c.
LEMMA GoKeeps ==
    ASSUME Inv, NEW p \in Pages \ {"gone"}, NEW c \in Contexts, Go(p, c), Fits(p, c),
           c.importedUsers \subseteq here', residue' \subseteq here', residue' \subseteq Users,
           shared' \in BOOLEAN, typed' \in Names \cup {None}
    PROVE  WizardInv' /\ PageTypes'
<1>1. /\ page' = p /\ ctx' = c /\ saved' = [page |-> p, ctx |-> c]
      /\ polling' \in {"on", "off"} /\ shown' = "none" /\ importing' = {}
      /\ following' = (following \/ p = "lodImportAsAdmin")
      /\ post' \in {"idle", "asked"}
  BY DEF Go, Save, Mount
<1>2. following' \in BOOLEAN
  BY <1>1
<1>3. PageTypes'
  BY <1>1, <1>2 DEF PageTypes
<1>4. WizardTypes'
  BY <1>1 DEF WizardTypes
<1>5. SavedIsShown' /\ ImportedAreHere' /\ Fits(page, ctx)'
  BY <1>1 DEF SavedIsShown, ImportedAreHere
<1> QED BY <1>3, <1>4, <1>5 DEF WizardInv

\* A step on the page that is shown, which leaves the context c.
LEMMA StayKeeps ==
    ASSUME Inv, NEW c \in Contexts, page' = page, ctx' = c, Fits(page, c),
           c.importedUsers \subseteq here', residue' \subseteq here', residue' \subseteq Users,
           shared' \in BOOLEAN, typed' \in Names \cup {None},
           saved' = [page |-> page, ctx |-> c] \/ (saved' = saved /\ c = ctx)
    PROVE  WizardInv'
<1>1. WizardTypes /\ SavedIsShown
  BY Parts
<1>2. WizardTypes'
  BY <1>1 DEF WizardTypes
<1>3. SavedIsShown' /\ ImportedAreHere' /\ Fits(page, ctx)'
  BY <1>1 DEF SavedIsShown, ImportedAreHere
<1> QED BY <1>2, <1>3 DEF WizardInv

\* A step that leaves the wizard alone.
LEMMA WizardSame ==
    ASSUME Inv, UNCHANGED wizard, here \subseteq here'
    PROVE  WizardInv'
<1>1. UNCHANGED <<page, ctx, saved, residue, shared, typed>>
  BY DEF wizard
<1>2. WizardTypes /\ SavedIsShown /\ Fits(page, ctx) /\ ctx.importedUsers \subseteq here
      /\ residue \subseteq here
  BY Parts
<1> QED BY <1>1, <1>2 DEF WizardInv, WizardTypes, SavedIsShown, ImportedAreHere

\* A step that leaves the server alone.
LEMMA ServerSame ==
    ASSUME Inv, UNCHANGED server
    PROVE  ServerInv'
BY Parts DEF ServerInv, server

LEMMA DetourType ==
    ASSUME Inv, Detour \/ detours' = detours \/ MayFail(TRUE) \/ MayFail(FALSE)
    PROVE  detours' \in 0..MaxDetours
BY Parts, Bounds DEF OtherTypes, Detour, MayFail

\* A step of the server on one request.
LEMMA TaskKeeps ==
    ASSUME Inv, NEW r \in Requests, NEW t \in Tasks, tasks' = [tasks EXCEPT ![r] = t],
           here \subseteq here', here' \subseteq Imports, provisioned' = provisioned,
           Holds(t, here')
    PROVE  ServerInv'
<1>1. /\ tasks \in [Requests -> Tasks] /\ (provisioned = None \/ provisioned \in Payloads)
      /\ \A q \in Requests : Holds(tasks[q], here)
  BY Parts DEF ServerInv
<1>2. tasks' \in [Requests -> Tasks] /\ tasks'[r] = t
      /\ \A q \in Requests \ {r} : tasks'[q] = tasks[q]
  BY <1>1
<1>3. ASSUME NEW q \in Requests PROVE Holds(tasks'[q], here')
  <2>1. CASE q = r
    BY <1>2, <2>1
  <2>2. CASE q # r
    <3>1. tasks'[q] = tasks[q] /\ Holds(tasks[q], here)
      BY <1>1, <1>2, <2>2
    <3> QED BY <3>1 DEF Holds
  <2> QED BY <2>1, <2>2
<1> QED BY <1>1, <1>2, <1>3 DEF ServerInv

\* A step to page p that only changes the context.
LEMMA QuietGoKeeps ==
    ASSUME Inv, NEW p \in Pages \ {"gone"}, NEW c \in Contexts, Go(p, c), Fits(p, c),
           c.importedUsers = ctx.importedUsers,
           UNCHANGED <<osUser, residue, shared, clears, coreError, server, detours>>,
           typed' \in Names \cup {None}
    PROVE  Inv'
<1>1. here' = here
  BY DEF server
<1>2. WizardInv' /\ PageTypes'
  BY <1>1, Parts, GoKeeps DEF WizardTypes
<1>3. ServerInv'
  BY ServerSame
<1>4. OtherTypes'
  BY Parts DEF OtherTypes
<1> QED BY <1>2, <1>3, <1>4 DEF Inv

\* Quiet, for the steps above.
LEMMA QuietSame ==
    ASSUME Inv, Quiet
    PROVE  /\ UNCHANGED <<osUser, residue, shared, clears, coreError, server, detours>>
           /\ typed' \in Names \cup {None}
BY Parts DEF Quiet, WizardTypes

-----------------------------------------------------------------------------
(* The questions.                                                          *)

\* The first choice leads to one of two pages, and is in the context from then on.
LEMMA ChooseUseKeeps ==
    ASSUME Inv, NEW use \in {"personal", "group"}, ChooseUse(use)
    PROVE  Inv'
<1> DEFINE p == IF use = "personal" THEN "defaultLanguage" ELSE "deviceName"
           c == [ctx EXCEPT !.use = use]
<1>1. Go(p, c) /\ Quiet
  BY DEF ChooseUse
<1>2. p \in Pages \ {"gone"}
  BY DEF Pages
<1>3. c \in Contexts /\ c.use = use /\ c.importedUsers = ctx.importedUsers
  BY Parts DEF Contexts
<1>4. Fits(p, c)
  BY <1>3 DEF Fits, PersonalPages, NewPages, Questions, ImportPages, LodPages, AnsweredBefore
<1> HIDE DEF p, c
<1> QED BY <1>1, <1>2, <1>3, <1>4, QuietGoKeeps, QuietSame

\* The choice of the kind of device.
LEMMA ChooseDeviceKeeps ==
    ASSUME Inv, NEW device \in {"full", "lod"}, ChooseDevice(device)
    PROVE  Inv'
<1> DEFINE p == IF device = "lod" THEN "selectLodSetupType" ELSE "fullDeviceNewOrImportFacility"
           c == [ctx EXCEPT !.device = device]
<1>1. Go(p, c) /\ Quiet
  BY DEF ChooseDevice
<1>2. p \in Pages \ {"gone"}
  BY DEF Pages, LodPages
<1>3. c \in Contexts /\ c.device = device /\ c.importedUsers = ctx.importedUsers
  BY Parts DEF Contexts
<1>4. Fits(p, c)
  BY <1>3 DEF Fits, PersonalPages, NewPages, Questions, ImportPages, LodPages, AnsweredBefore
<1> HIDE DEF p, c
<1> QED BY <1>1, <1>2, <1>3, <1>4, QuietGoKeeps, QuietSame

\* A new facility, or one of another device.
LEMMA ChooseFacilityKeeps ==
    ASSUME Inv, NEW choice \in {"new", "import"}, ChooseFacility(choice)
    PROVE  Inv'
<1> DEFINE p == IF choice = "new" THEN "setFacilityPermissions" ELSE "selectFacilityForm"
           c == [ctx EXCEPT !.facilityNewOrImport = choice]
<1>1. Go(p, c) /\ Quiet /\ page = "fullDeviceNewOrImportFacility"
  BY DEF ChooseFacility
<1>2. p \in Pages \ {"gone"}
  BY DEF Pages, Questions, ImportPages
<1>3. /\ c \in Contexts /\ c.facilityNewOrImport = choice /\ c.device = ctx.device
      /\ c.importedUsers = ctx.importedUsers
  BY Parts DEF Contexts
<1>4. ctx.device = "full"
  BY <1>1, Parts DEF Fits
<1>5. Fits(p, c)
  BY <1>3, <1>4 DEF Fits, PersonalPages, NewPages, Questions, ImportPages, LodPages,
     AnsweredBefore
<1> HIDE DEF p, c
<1> QED BY <1>1, <1>2, <1>3, <1>5, QuietGoKeeps, QuietSame

\* The page that follows each question.
LEMMA FollowingPages ==
    /\ DOMAIN Following = Questions \cup {"defaultLanguage", "deviceName",
                                          "personalDataConsent", "personalDataConsentForm"}
    /\ Following["defaultLanguage"] = IF osUser THEN "finalizeSetup" ELSE "createOnMyOwnAccount"
    /\ Following["deviceName"] = "fullOrLearnOnlyDevice"
    /\ Following["setFacilityPermissions"] = "guestAccess"
    /\ Following["guestAccess"] = "createLearnerAccount"
    /\ Following["createLearnerAccount"] = "requirePassword"
    /\ Following["requirePassword"] = "personalDataConsent"
    /\ Following["personalDataConsent"] = "createSuperuserAndFacility"
    /\ Following["personalDataConsentForm"] = "finalizeSetup"
BY DEF Following, Questions

\* Fields of the context c that are those of d.
Same(c, d) ==
    /\ c.use = d.use /\ c.device = d.device /\ c.facilityNewOrImport = d.facilityNewOrImport
    /\ c.importedUsers = d.importedUsers

\* The page after one that was gone through, and the context that it left.
LEMMA FollowingFits ==
    ASSUME page \in DOMAIN Following, NEW d \in Contexts, Fits(page, d),
           NEW c \in Contexts, Same(c, d), c.superuser = d.superuser,
           (d.answers \cup d.blank) \cup ({page} \cap Questions) \subseteq c.answers \cup c.blank
    PROVE  Following[page] \in Pages \ {"gone"} /\ Fits(Following[page], c)
<1> DEFINE p == Following[page]
<1>1. page \in Questions \cup {"defaultLanguage", "deviceName",
                               "personalDataConsent", "personalDataConsentForm"}
  BY FollowingPages
<1>2. c.use = d.use /\ c.device = d.device /\ c.facilityNewOrImport = d.facilityNewOrImport
  BY DEF Same
<1>3. CASE page \in Questions
  <2>1. /\ p \in {"guestAccess", "createLearnerAccount", "requirePassword", "personalDataConsent"}
        /\ AnsweredBefore(p) = AnsweredBefore(page) \cup {page}
    BY <1>3, FollowingPages DEF Questions, AnsweredBefore
  <2>2. d.device = "full" /\ d.facilityNewOrImport = "new"
        /\ AnsweredBefore(page) \subseteq d.answers \cup d.blank
    BY <1>3 DEF Fits, NewPages
  <2>3. AnsweredBefore(p) \subseteq c.answers \cup c.blank
    BY <1>3, <2>1, <2>2
  <2>4. Fits(p, c)
    BY <1>2, <2>1, <2>2, <2>3 DEF Fits, PersonalPages, NewPages, Questions, ImportPages,
       LodPages
  <2>5. p \in Pages \ {"gone"}
    BY <2>1 DEF Pages, Questions
  <2> HIDE DEF p
  <2> QED BY <2>4, <2>5 DEF p
<1>4. CASE page = "personalDataConsent"
  <2>1. p = "createSuperuserAndFacility"
    BY <1>4, FollowingPages
  <2>2. d.device = "full" /\ d.facilityNewOrImport = "new"
        /\ Questions \subseteq d.answers \cup d.blank
    BY <1>4 DEF Fits, NewPages, AnsweredBefore
  <2>3. Questions \subseteq c.answers \cup c.blank
    BY <2>2
  <2>4. Fits(p, c)
    BY <1>2, <2>1, <2>2, <2>3 DEF Fits, PersonalPages, NewPages, Questions, ImportPages,
       LodPages, AnsweredBefore
  <2>5. p \in Pages \ {"gone"}
    BY <2>1 DEF Pages
  <2> HIDE DEF p
  <2> QED BY <2>4, <2>5 DEF p
<1>5. CASE page = "deviceName"
  <2>1. p = "fullOrLearnOnlyDevice"
    BY <1>5, FollowingPages
  <2>2. p \in Pages \ {"gone"}
    BY <2>1 DEF Pages
  <2> QED BY <2>1, <2>2, FreePages
<1>6. CASE page \in {"defaultLanguage", "personalDataConsentForm"}
  <2>1. p = "finalizeSetup" \/ (p = "createOnMyOwnAccount" /\ page = "defaultLanguage")
    BY <1>6, FollowingPages
  <2>2. c.use = "personal" \/ c.facilityNewOrImport = "import"
    BY <1>2, <1>6 DEF Fits, PersonalPages, ImportPages
  <2>3. CASE p = "finalizeSetup"
    BY <2>2, <2>3, EndFits
  <2>4. CASE p = "createOnMyOwnAccount" /\ page = "defaultLanguage"
    <3>1. c.use = "personal"
      BY <1>2, <2>4 DEF Fits, PersonalPages
    <3>2. Fits("createOnMyOwnAccount", c) /\ "createOnMyOwnAccount" \in Pages \ {"gone"}
      BY <3>1 DEF Fits, PersonalPages, NewPages, Questions, ImportPages, LodPages,
         AnsweredBefore, Pages
    <3> QED BY <2>4, <3>2
  <2> QED BY <2>1, <2>3, <2>4
<1> QED BY <1>1, <1>3, <1>4, <1>5, <1>6

\* What an answer leaves in the context.
LEMMA AnsweredContext ==
    ASSUME Inv
    PROVE  /\ Answered \in Contexts /\ Same(Answered, ctx) /\ Answered.superuser = ctx.superuser
           /\ Answered.answers = ctx.answers \cup ({page} \cap Questions)
           /\ Answered.blank = ctx.blank \ {page}
<1>1. ctx \in Contexts
  BY Parts
<1>2. ctx.answers \cup ({page} \cap Questions) \in SUBSET Questions
      /\ ctx.blank \ {page} \in SUBSET (Questions \cup {"createSuperuserAndFacility"})
  BY <1>1 DEF Contexts
<1> QED BY <1>1, <1>2 DEF Answered, Same, Contexts

\* An answer adds to the answers, and the next page knows of it.
LEMMA AnswerKeeps ==
    ASSUME Inv, Answer
    PROVE  Inv'
<1>1. page \in DOMAIN Following /\ Go(Following[page], Answered) /\ Quiet
  BY DEF Answer
<1>2. ctx \in Contexts /\ Fits(page, ctx)
  BY Parts
<1>3. page \notin {"createSuperuserAndFacility"}
  BY <1>1, FollowingPages DEF Questions
<1>4. ctx.answers \cup ctx.blank \cup ({page} \cap Questions)
         \subseteq Answered.answers \cup Answered.blank
  <2>1. ctx.blank \subseteq Questions \cup {"createSuperuserAndFacility"}
    BY <1>2 DEF Contexts
  <2> QED BY <1>3, <2>1, AnsweredContext
<1>5. Following[page] \in Pages \ {"gone"} /\ Fits(Following[page], Answered)
  BY <1>1, <1>2, <1>4, AnsweredContext, FollowingFits
<1> QED BY <1>1, <1>5, AnsweredContext, QuietGoKeeps, QuietSame DEF Same

\* The account that is named goes with the answers that were given before.
LEMMA NameSuperuserKeeps ==
    ASSUME Inv, NEW u \in Names, NameSuperuser(u)
    PROVE  Inv'
<1> DEFINE p == IF page = "selectSuperAdminAccountForm" THEN "personalDataConsentForm"
                ELSE "finalizeSetup"
           c == [ctx EXCEPT !.superuser = u, !.blank = @ \ {page}]
<1>1. /\ Go(p, c) /\ UNCHANGED <<osUser, residue, shared, clears, coreError, server, detours>>
      /\ typed' = u
      /\ \/ page \in {"createOnMyOwnAccount", "createSuperuserAndFacility"} /\ u = Own
         \/ page = "selectSuperAdminAccountForm"
  BY DEF NameSuperuser
<1>2. ctx \in Contexts /\ Fits(page, ctx)
  BY Parts
<1>3. c \in Contexts /\ Same(c, ctx) /\ c.superuser = u
      /\ c.answers = ctx.answers /\ c.blank = ctx.blank \ {page}
  <2>1. ctx.blank \ {page} \in SUBSET (Questions \cup {"createSuperuserAndFacility"})
    BY <1>2 DEF Contexts
  <2>2. c \in Contexts
    BY <1>2, <2>1 DEF Contexts
  <2> QED BY <1>2, <2>2 DEF Contexts, Same
<1>4. CASE page = "selectSuperAdminAccountForm"
  <2>1. p = "personalDataConsentForm" /\ p \in Pages \ {"gone"}
    BY <1>4 DEF Pages, ImportPages
  <2>2. c.device = "full" /\ c.facilityNewOrImport = "import"
    BY <1>2, <1>3, <1>4 DEF Fits, ImportPages, Same
  <2>3. Fits(p, c)
    BY <2>1, <2>2 DEF Fits, PersonalPages, NewPages, Questions, ImportPages, LodPages,
       AnsweredBefore
  <2> HIDE DEF p, c
  <2> QED BY <1>1, <1>3, <2>1, <2>3, QuietGoKeeps DEF Same
<1>5. CASE page = "createOnMyOwnAccount"
  <2>1. p = "finalizeSetup"
    BY <1>5
  <2>2. c.use = "personal"
    BY <1>2, <1>3, <1>5 DEF Fits, PersonalPages, Same
  <2> HIDE DEF p, c
  <2> QED BY <1>1, <1>3, <2>1, <2>2, EndFits, QuietGoKeeps DEF Same
<1>6. CASE page = "createSuperuserAndFacility"
  <2>1. p = "finalizeSetup" /\ u = Own /\ p \in Pages \ {"gone"}
    BY <1>1, <1>6 DEF Pages
  <2>2. Questions \subseteq ctx.answers \cup ctx.blank
    BY <1>2, <1>6 DEF Fits, AnsweredBefore
  <2>3. Questions \subseteq c.answers \cup c.blank
    BY <1>3, <1>6, <2>2 DEF Questions
  <2>4. Fits(p, c)
    BY <1>3, <2>1, <2>3 DEF Fits, SetUp, PersonalPages, NewPages, Questions, ImportPages,
       LodPages, AnsweredBefore
  <2> HIDE DEF p, c
  <2> QED BY <1>1, <1>3, <2>1, <2>4, QuietGoKeeps DEF Same
<1> QED BY <1>1, <1>4, <1>5, <1>6

\* Where the way back leads from the pages that have one.
LEMMA PreviousPages ==
    ASSUME page \in DOMAIN Previous
    PROVE  \/ page \in {"defaultLanguage", "deviceName"}
              /\ Previous[page] = "howAreYouUsingKolibri"
           \/ page = "createOnMyOwnAccount" /\ Previous[page] = "defaultLanguage"
           \/ page = "fullOrLearnOnlyDevice" /\ Previous[page] = "deviceName"
           \/ page \in {"fullDeviceNewOrImportFacility", "selectLodSetupType"}
              /\ Previous[page] = "fullOrLearnOnlyDevice"
           \/ page \in {"setFacilityPermissions", "selectFacilityForm", "importAuthentication"}
              /\ Previous[page] = "fullDeviceNewOrImportFacility"
           \/ page = "guestAccess" /\ Previous[page] = "setFacilityPermissions"
           \/ page = "createLearnerAccount" /\ Previous[page] = "guestAccess"
           \/ page = "requirePassword" /\ Previous[page] = "createLearnerAccount"
           \/ page = "personalDataConsent" /\ Previous[page] = "requirePassword"
           \/ page = "createSuperuserAndFacility" /\ Previous[page] = "personalDataConsent"
           \/ page = "importAuthentication" /\ Previous[page] = "selectFacilityForm"
           \/ page = "personalDataConsentForm"
              /\ Previous[page] = "selectSuperAdminAccountForm"
           \/ page \in {"selectLodFacility", "lodImportUserAuth", "lodJoinFacility"}
              /\ Previous[page] = "selectLodSetupType"
           \/ page = "lodImportAsAdmin" /\ Previous[page] \in {"lodImportUserAuth", "lodLoading"}
BY DEF Previous, Questions

\* A step back keeps the answers, and forgets the import that was left.
LEMMA BackKeeps ==
    ASSUME Inv, Back
    PROVE  Inv'
<1> DEFINE p == Previous[page]
           c == Reverted
<1>1. /\ Go(p, c) /\ UNCHANGED <<osUser, residue, shared, typed, clears, coreError, server>>
      /\ page \in DOMAIN Previous /\ Detour
  BY DEF Back
<1>2. ctx \in Contexts /\ Fits(page, ctx)
  BY Parts
<1>3. /\ c \in Contexts /\ c.importedUsers = ctx.importedUsers
      /\ ctx.answers \cup ctx.blank \subseteq c.answers \cup c.blank
      /\ c.use = ctx.use /\ c.device = ctx.device
      /\ p # "fullDeviceNewOrImportFacility" => c.facilityNewOrImport = ctx.facilityNewOrImport
  <2>1. CASE /\ page \in {"selectFacilityForm", "importAuthentication"}
             /\ p = "fullDeviceNewOrImportFacility"
    <3>1. c = [ctx EXCEPT !.facilityNewOrImport = None, !.selectedFacility = None]
      BY <2>1 DEF Reverted
    <3> HIDE DEF c
    <3> QED BY <1>2, <2>1, <3>1 DEF Contexts
  <2>2. CASE ~(/\ page \in {"selectFacilityForm", "importAuthentication"}
               /\ p = "fullDeviceNewOrImportFacility")
    <3>1. (c = Answered /\ page \in Questions) \/ c = ctx
      BY <2>2 DEF Reverted
    <3>2. CASE c = Answered /\ page \in Questions
      <4>1. ctx.answers \cup ctx.blank \subseteq Answered.answers \cup Answered.blank
        BY <3>2, AnsweredContext
      <4> HIDE DEF c, p
      <4> QED BY <3>2, <4>1, AnsweredContext DEF Same
    <3>3. CASE c = ctx
      <4> HIDE DEF c, p
      <4> QED BY <1>2, <3>3
    <3> QED BY <3>1, <3>2, <3>3
  <2> QED BY <2>1, <2>2
<1> HIDE DEF c
<1>4. Fits(p, c) /\ p \in Pages \ {"gone"}
  <2>1. CASE page \in {"guestAccess", "createLearnerAccount", "requirePassword",
                       "personalDataConsent", "createSuperuserAndFacility"}
    <3>1. /\ p \in {"setFacilityPermissions", "guestAccess", "createLearnerAccount",
                    "requirePassword", "personalDataConsent"}
          /\ AnsweredBefore(p) \subseteq AnsweredBefore(page)
      BY <1>1, <2>1, PreviousPages DEF AnsweredBefore, Questions
    <3>2. ctx.device = "full" /\ ctx.facilityNewOrImport = "new"
          /\ AnsweredBefore(page) \subseteq ctx.answers \cup ctx.blank
      BY <1>2, <2>1 DEF Fits, NewPages, Questions
    <3>3. AnsweredBefore(p) \subseteq c.answers \cup c.blank
      BY <1>3, <3>1, <3>2
    <3>4. p \in Pages \ {"gone"}
      BY <3>1 DEF Pages, Questions
    <3> QED BY <1>3, <3>1, <3>2, <3>3, <3>4 DEF Fits, PersonalPages, NewPages, Questions,
          ImportPages, LodPages
  <2>2. CASE page \in {"setFacilityPermissions", "selectFacilityForm", "importAuthentication",
                       "personalDataConsentForm"}
    <3>1. \/ p = "fullDeviceNewOrImportFacility"
          \/ p = "selectFacilityForm" /\ page = "importAuthentication"
          \/ p = "selectSuperAdminAccountForm" /\ page = "personalDataConsentForm"
      BY <1>1, <2>2, PreviousPages
    <3>2. /\ ctx.device = "full"
          /\ page # "setFacilityPermissions" => ctx.facilityNewOrImport = "import"
      BY <1>2, <2>2 DEF Fits, NewPages, Questions, ImportPages
    <3>3. p \in Pages \ {"gone"}
      BY <3>1 DEF Pages, ImportPages
    <3> QED BY <1>3, <3>1, <3>2, <3>3 DEF Fits, PersonalPages, NewPages, Questions,
          ImportPages, LodPages, AnsweredBefore
  <2>3. CASE page \in {"selectLodFacility", "lodImportUserAuth", "lodJoinFacility",
                       "lodImportAsAdmin"}
    <3>1. p \in LodPages
      BY <1>1, <2>3, PreviousPages DEF LodPages
    <3>2. c.device = "lod"
      BY <1>2, <1>3, <2>3 DEF Fits, LodPages
    <3> QED BY <3>1, <3>2, LodFits
  <2>4. CASE page \in {"defaultLanguage", "deviceName", "createOnMyOwnAccount",
                       "fullOrLearnOnlyDevice", "fullDeviceNewOrImportFacility",
                       "selectLodSetupType"}
    <3>1. /\ p \in {"howAreYouUsingKolibri", "defaultLanguage", "deviceName",
                    "fullOrLearnOnlyDevice"}
          /\ p = "defaultLanguage" => page = "createOnMyOwnAccount"
      BY <1>1, <2>4, PreviousPages
    <3>2. page = "createOnMyOwnAccount" => ctx.use = "personal"
      BY <1>2 DEF Fits, PersonalPages
    <3>3. p \in Pages \ {"gone"}
      BY <3>1 DEF Pages
    <3> QED BY <1>3, <3>1, <3>2, <3>3 DEF Fits, PersonalPages, NewPages, Questions,
          ImportPages, LodPages, AnsweredBefore
  <2> QED BY <1>1, <2>1, <2>2, <2>3, <2>4, PreviousPages
<1> HIDE DEF p
<1>5. WizardInv' /\ PageTypes' /\ ServerInv'
  <2>1. here' = here
    BY <1>1 DEF server
  <2>2. ServerInv'
    BY <1>1, ServerSame
  <2> QED BY <1>1, <1>3, <1>4, <2>1, <2>2, Parts, GoKeeps DEF WizardTypes
<1>6. OtherTypes'
  BY <1>1, Parts, DetourType DEF OtherTypes
<1> QED BY <1>5, <1>6 DEF Inv

-----------------------------------------------------------------------------
(* Imports.                                                                *)

\* A facility of the other device is chosen.
LEMMA SelectFacilityKeeps ==
    ASSUME Inv, NEW f \in Facilities, SelectFacility(f)
    PROVE  Inv'
<1> DEFINE p == IF page = "selectFacilityForm" THEN "importAuthentication"
                ELSE IF ctx.lodImportOrJoin = "join" THEN "lodJoinFacility"
                ELSE "lodImportUserAuth"
           c == [ctx EXCEPT !.selectedFacility = f]
<1>1. Go(p, c) /\ Quiet
  BY DEF SelectFacility
<1>2. /\ c \in Contexts /\ c.importedUsers = ctx.importedUsers
      /\ c.device = ctx.device /\ c.facilityNewOrImport = ctx.facilityNewOrImport
  BY Parts DEF Contexts
<1>3. \/ page = "selectFacilityForm" /\ p = "importAuthentication"
      \/ page = "selectLodFacility" /\ p \in {"lodJoinFacility", "lodImportUserAuth"}
  BY DEF SelectFacility
<1> HIDE DEF p, c
<1>4. /\ page = "selectFacilityForm" => /\ ctx.device = "full"
                                        /\ ctx.facilityNewOrImport = "import"
      /\ page = "selectLodFacility" => ctx.device = "lod"
  BY Parts DEF Fits, ImportPages, LodPages
<1>5. p \in Pages \ {"gone"}
  BY <1>3 DEF Pages, ImportPages, LodPages
<1>6. Fits(p, c)
  BY <1>2, <1>3, <1>4 DEF Fits, PersonalPages, NewPages, Questions, ImportPages,
     LodPages, AnsweredBefore
<1> QED BY <1>1, <1>2, <1>5, <1>6, QuietGoKeeps, QuietSame

\* The two ways of setting up a learn-only device.
LEMMA ChooseLodTypeKeeps ==
    ASSUME Inv, NEW type \in {"import", "join"}, ChooseLodType(type)
    PROVE  Inv'
<1> DEFINE c == [ctx EXCEPT !.lodImportOrJoin = type]
<1>1. Go("selectLodFacility", c) /\ Quiet /\ page = "selectLodSetupType"
  BY DEF ChooseLodType
<1>2. c \in Contexts /\ c.importedUsers = ctx.importedUsers /\ c.device = ctx.device
  BY Parts DEF Contexts
<1>3. ctx.device = "lod" /\ "selectLodFacility" \in LodPages
  BY <1>1, Parts DEF Fits, LodPages
<1> HIDE DEF c
<1> QED BY <1>1, <1>2, <1>3, LodFits, QuietGoKeeps, QuietSame

\* Pages of the setup of a learn-only device that leave the context alone.
LEMMA LodStepKeeps ==
    ASSUME Inv, FinishImports \/ UseAdmin \/ ImportAnother
    PROVE  Inv'
<1>1. ctx \in Contexts /\ ctx.device = "lod"
  BY Parts DEF Fits, LodPages, FinishImports, UseAdmin, ImportAnother
<1>2. "lodImportAsAdmin" \in LodPages /\ "lodImportUserAuth" \in LodPages
  BY DEF LodPages
<1>3. CASE FinishImports
  BY <1>1, <1>3, EndFits, QuietGoKeeps, QuietSame DEF FinishImports
<1>4. CASE UseAdmin
  BY <1>1, <1>2, <1>4, LodFits, QuietGoKeeps, QuietSame DEF UseAdmin
<1>5. CASE ImportAnother
  BY <1>1, <1>2, <1>5, LodFits, QuietGoKeeps, QuietSame DEF ImportAnother
<1> QED BY <1>3, <1>4, <1>5

\* A request of a page for an import that it may ask for.
LEMMA SendKeeps ==
    ASSUME Inv, NEW t \in Imports, Send(t),
           page \in {"importAuthentication", "lodImportUserAuth", "lodImportAsAdmin",
                     "lodJoinFacility"},
           page \in UserPages => t \in Users, importing' \subseteq Requests
    PROVE  ServerInv' /\ PageTypes' /\ OtherTypes' /\ here' = here /\ Fresh \in Requests
<1> DEFINE new == [state |-> "none", of |-> t, facility |-> ctx.selectedFacility,
                   from |-> page, answer |-> "awaited"]
<1>1. /\ tasks' = [tasks EXCEPT ![Fresh] = new] /\ \E r \in Requests : Unused(r)
      /\ ctx.selectedFacility # None /\ here' = here /\ provisioned' = provisioned
      /\ UNCHANGED <<osUser, shown, polling, following, post, clears, coreError, detours>>
  BY DEF Send
<1>2. Fresh \in Requests
  BY <1>1 DEF Fresh
<1>3. ctx \in Contexts /\ here \subseteq Imports
  BY Parts DEF ServerInv
<1>4. ctx.selectedFacility \in Facilities
  BY <1>1, <1>3 DEF Contexts
<1>5. new \in Tasks /\ Holds(new, here')
  BY <1>4 DEF Tasks, Holds
<1> HIDE DEF new
<1>6. ServerInv'
  BY <1>1, <1>2, <1>3, <1>5, TaskKeeps
<1>7. PageTypes' /\ OtherTypes'
  BY <1>1, Parts DEF PageTypes, OtherTypes
<1> QED BY <1>1, <1>2, <1>6, <1>7

\* A request for an import of the facility that was chosen, or of a learner.
LEMMA SubmitKeeps ==
    ASSUME Inv, NEW t \in Imports, Submit(t)
    PROVE  Inv'
<1>1. /\ Send(t) /\ UNCHANGED <<page, ctx, saved, residue, shared, typed, importing>>
      /\ page \in {"importAuthentication", "lodImportUserAuth"}
      /\ page \in UserPages => t \in Users
  BY DEF Submit, Send, UserPages
<1>2. importing' \subseteq Requests
  BY <1>1, Parts DEF PageTypes
<1>3. ServerInv' /\ PageTypes' /\ OtherTypes' /\ here' = here
  BY <1>1, <1>2, SendKeeps
<1>4. WizardInv'
  BY <1>1, <1>3, WizardSame DEF wizard
<1> QED BY <1>3, <1>4 DEF Inv

\* Naming a user in the context.
LEMMA NamedContext ==
    ASSUME Inv, NEW u \in Users
    PROVE  /\ WithFirst(u) \in Contexts /\ Same(WithFirst(u), ctx)
           /\ WithFirst(u).answers = ctx.answers /\ WithFirst(u).blank = ctx.blank
           /\ WithFirst(u).superuser = ctx.superuser
<1>1. ctx \in Contexts
  BY Parts
<1> QED BY <1>1 DEF WithFirst, Same, Contexts

\* An import of ImportMultipleUsers is listed among those that go on.
LEMMA ImportAsAdminKeeps ==
    ASSUME Inv, NEW u \in Users, ImportAsAdmin(u)
    PROVE  Inv'
<1>1. /\ Send(u) /\ page = "lodImportAsAdmin" /\ UNCHANGED <<page, residue, shared, typed>>
      /\ importing' = importing \cup {Fresh}
      /\ ctx' = WithFirst(u) /\ saved' = [page |-> page, ctx |-> ctx']
  BY DEF ImportAsAdmin, Send, Save
<1>2. \E r \in Requests : Unused(r)
  BY <1>1 DEF Send
<1>3. importing' \subseteq Requests
  BY <1>1, <1>2, Parts DEF PageTypes, Fresh
<1>4. ServerInv' /\ PageTypes' /\ OtherTypes' /\ here' = here
  BY <1>1, <1>3, SendKeeps DEF Imports
<1>5. page \in LodPages /\ ctx.device = "lod"
  BY <1>1, Parts DEF Fits, LodPages
<1>6. Fits(page, WithFirst(u))
  BY <1>5, NamedContext, LodFits DEF Same
<1> DEFINE c == WithFirst(u)
<1>7. c \in Contexts /\ c.importedUsers \subseteq here' /\ residue' \subseteq here'
      /\ residue' \subseteq Users /\ shared' \in BOOLEAN /\ typed' \in Names \cup {None}
  BY <1>1, <1>4, NamedContext, Parts DEF Same, WizardTypes
<1>8. ctx' = c /\ Fits(page, c) /\ saved' = [page |-> page, ctx |-> c] /\ page' = page
  BY <1>1, <1>6
<1> HIDE DEF c
<1>9. WizardInv'
  BY <1>7, <1>8, StayKeeps
<1> QED BY <1>4, <1>9 DEF Inv

\* A new account of the other device is the superuser, whether or not it could be
\* created.
LEMMA JoinKeeps ==
    ASSUME Inv, NEW u \in Users, NEW created \in BOOLEAN, Join(u, created)
    PROVE  Inv'
<1> DEFINE c == [ctx EXCEPT !.superuser = u]
<1>1. /\ page = "lodJoinFacility" /\ typed' = u /\ ctx' = c /\ importing' = importing
      /\ saved' = [page |-> page, ctx |-> ctx']
      /\ IF created THEN Send(u)
         ELSE UNCHANGED <<osUser, page, residue, shared, shown, polling, following, post,
                          clears, coreError, server, detours>>
  BY DEF Join, Save
<1>2. importing' \subseteq Requests
  BY <1>1, Parts DEF PageTypes
<1>3. ServerInv' /\ PageTypes' /\ OtherTypes' /\ here' = here
  <2>1. CASE created
    BY <1>1, <1>2, <2>1, SendKeeps DEF Imports
  <2>2. CASE ~created
    <3>1. UNCHANGED <<osUser, shown, polling, following, importing, post, clears, coreError,
                      server, detours>>
      BY <1>1, <2>2
    <3>2. here' = here /\ ServerInv'
      BY <3>1, ServerSame DEF server
    <3> QED BY <3>1, <3>2, Parts DEF PageTypes, OtherTypes
  <2> QED BY <2>1, <2>2
<1>4. UNCHANGED <<page, residue, shared>>
  BY <1>1 DEF Send
<1>5. page \in LodPages /\ ctx.device = "lod" /\ ctx \in Contexts
  BY <1>1, Parts DEF Fits, LodPages
<1>6. c \in Contexts /\ c.importedUsers = ctx.importedUsers /\ c.device = "lod"
  BY <1>5 DEF Contexts, Names
<1>7. Fits(page, c)
  BY <1>5, <1>6, LodFits
<1> HIDE DEF c
<1>8. c.importedUsers \subseteq here' /\ residue' \subseteq here' /\ residue' \subseteq Users
      /\ shared' \in BOOLEAN /\ typed' \in Names \cup {None}
  BY <1>1, <1>3, <1>4, <1>6, Parts DEF WizardTypes, Names
<1>9. WizardInv'
  BY <1>1, <1>4, <1>6, <1>7, <1>8, StayKeeps
<1> QED BY <1>3, <1>9 DEF Inv

-----------------------------------------------------------------------------
(* The requests that start imports, and their answers.                     *)

\* What is left of a request says no more than what was known of it.
LEMMA LeftHolds ==
    ASSUME Inv, NEW r \in Requests,
           NEW state \in {"none", "running", "completed", "failed"},
           NEW answer \in {"none", "awaited", "yes", "no"},
           state # "none" \/ answer # "none" => tasks[r].state # "none" \/ tasks[r].answer # "none",
           state = "completed" => tasks[r].of \in here,
           answer # "none" => tasks[r].answer # "none"
    PROVE  Left(r, state, answer) \in Tasks /\ Holds(Left(r, state, answer), here)
<1>1. tasks[r] \in Tasks /\ Holds(tasks[r], here)
  BY Parts DEF ServerInv
<1>2. CASE state = "none" /\ answer = "none" /\ r \notin importing
  <2>1. Left(r, state, answer) = NoTask
    BY <1>2 DEF Left
  <2> QED BY <2>1 DEF NoTask, Tasks, Holds
<1>3. CASE ~(state = "none" /\ answer = "none" /\ r \notin importing)
  <2> DEFINE t == Left(r, state, answer)
  <2>1. t = [tasks[r] EXCEPT !.state = state, !.answer = answer,
                             !.from = IF answer = "none" THEN None ELSE @]
    BY <1>3 DEF Left
  <2>2. /\ t \in Tasks /\ t.state = state /\ t.answer = answer /\ t.of = tasks[r].of
        /\ t.facility = tasks[r].facility
        /\ answer # "none" => t.from = tasks[r].from
    BY <1>1, <2>1 DEF Tasks
  <2>3. Holds(t, here)
    BY <1>1, <2>2 DEF Holds
  <2> QED BY <2>2, <2>3
<1> QED BY <1>2, <1>3

\* A step of the server on a request.
LEMMA LeftKeeps ==
    ASSUME Inv, NEW r \in Requests, NEW state, NEW answer,
           tasks' = [tasks EXCEPT ![r] = Left(r, state, answer)],
           Left(r, state, answer) \in Tasks, Holds(Left(r, state, answer), here),
           here' = here, provisioned' = provisioned
    PROVE  ServerInv'
<1> DEFINE t == Left(r, state, answer)
<1>1. t \in Tasks /\ Holds(t, here') /\ tasks' = [tasks EXCEPT ![r] = t]
  OBVIOUS
<1>2. here' \subseteq Imports /\ here \subseteq here'
  BY Parts DEF ServerInv
<1> HIDE DEF t
<1> QED BY <1>1, <1>2, TaskKeeps

\* The server takes up a request.
LEMMA ServeStartKeeps ==
    ASSUME Inv, NEW r \in Requests, NEW started \in BOOLEAN, NEW told \in BOOLEAN,
           ServeStart(r, started, told)
    PROVE  Inv'
<1> DEFINE state == IF started THEN "running" ELSE "none"
           answer == IF tasks[r].from = None THEN "none" ELSE IF told THEN "yes" ELSE "no"
<1>1. /\ tasks[r].answer = "awaited" /\ MayFail(~told)
      /\ tasks' = [tasks EXCEPT ![r] = Left(r, state, answer)]
      /\ UNCHANGED <<osUser, wizard, views, clears, coreError, here, provisioned>>
  BY DEF ServeStart
<1>2. Left(r, state, answer) \in Tasks /\ Holds(Left(r, state, answer), here)
  <2>1. state \in {"none", "running"} /\ answer \in {"none", "yes", "no"}
    OBVIOUS
  <2> HIDE DEF state, answer
  <2> QED BY <1>1, <2>1, LeftHolds
<1> HIDE DEF state, answer
<1>3. ServerInv'
  BY <1>1, <1>2, LeftKeeps
<1>4. WizardInv'
  BY <1>1, WizardSame
<1>5. PageTypes'
  BY <1>1, Parts DEF PageTypes, views
<1>6. OtherTypes'
  <2>1. detours' \in 0..MaxDetours
    BY <1>1, Parts, Bounds DEF MayFail, Detour, OtherTypes
  <2> QED BY <1>1, <2>1, Parts DEF OtherTypes
<1> QED BY <1>3, <1>4, <1>5, <1>6 DEF Inv

\* The pages that a CONTINUE meant for another page leads to.
LEMMA OnwardPages ==
    ASSUME page \in DOMAIN Onward
    PROVE  \/ page \in DOMAIN Following /\ Onward[page] = Following[page]
           \/ page \in {"createOnMyOwnAccount", "createSuperuserAndFacility"}
              /\ Onward[page] = "finalizeSetup"
           \/ page \in {"selectFacilityForm", "importAuthentication", "loadingTaskPage",
                        "selectSuperAdminAccountForm"}
              /\ Onward[page] \in {"importAuthentication", "loadingTaskPage",
                                   "selectSuperAdminAccountForm", "personalDataConsentForm"}
           \/ page \in LodPages /\ Onward[page] \in LodPages
           \/ page \in {"howAreYouUsingKolibri", "fullOrLearnOnlyDevice",
                        "fullDeviceNewOrImportFacility"} /\ Onward[page] = "nowhere"
<1>1. page \in Pages \ {"personalDataConsentForm", "lodLoading", "lodImportAsAdmin",
                        "lodJoinLoading", "finalizeSetup", "gone", "nowhere"}
  BY DEF Onward
<1>2. Onward[page] =
        CASE page \in DOMAIN Following -> Following[page]
          [] page \in {"createOnMyOwnAccount", "createSuperuserAndFacility"} -> "finalizeSetup"
          [] page = "selectFacilityForm" -> "importAuthentication"
          [] page = "importAuthentication" -> "loadingTaskPage"
          [] page = "loadingTaskPage" -> "selectSuperAdminAccountForm"
          [] page = "selectSuperAdminAccountForm" -> "personalDataConsentForm"
          [] page = "selectLodSetupType" -> "selectLodFacility"
          [] page = "selectLodFacility" ->
                 IF ctx.lodImportOrJoin = "join" THEN "lodJoinFacility" ELSE "lodImportUserAuth"
          [] page = "lodImportUserAuth" -> "lodLoading"
          [] page = "lodJoinFacility" -> "lodJoinLoading"
          [] OTHER -> "nowhere"
  BY <1>1 DEF Onward
<1>3. CASE page \in DOMAIN Following
  BY <1>2, <1>3, FollowingPages DEF Questions
<1>4. CASE page \notin DOMAIN Following
  <2>1. page \notin Questions \cup {"defaultLanguage", "deviceName", "personalDataConsent",
                                    "personalDataConsentForm"}
    BY <1>4, FollowingPages
  <2> QED BY <1>1, <1>2, <1>4, <2>1 DEF Pages, Questions, ImportPages, LodPages
<1> QED BY <1>3, <1>4

\* Contexts that agree in what the pages rely on.
Alike(c, d) ==
    /\ Same(c, d) /\ c.answers = d.answers /\ c.blank = d.blank /\ c.superuser = d.superuser

LEMMA AlikeFits ==
    ASSUME NEW p, NEW c, NEW d, Alike(c, d), Fits(p, d)
    PROVE  Fits(p, c)
BY DEF Alike, Same, Fits, SetUp

\* What a CONTINUE that was meant for another page does to the context.
LEMMA AssignedContext ==
    ASSUME NEW c \in Contexts, NEW u \in Users \cup {None}
    PROVE  /\ Assigned(c, u) \in Contexts /\ Assigned(c, u).importedUsers = c.importedUsers
           /\ c.answers \cup c.blank \cup ({page} \cap Questions)
                 \subseteq Assigned(c, u).answers \cup Assigned(c, u).blank
           /\ page # "howAreYouUsingKolibri" => Assigned(c, u).use = c.use
           /\ page # "fullOrLearnOnlyDevice" => Assigned(c, u).device = c.device
           /\ page # "fullDeviceNewOrImportFacility" =>
                 Assigned(c, u).facilityNewOrImport = c.facilityNewOrImport
           /\ page = "createSuperuserAndFacility" => page \in Assigned(c, u).blank
           /\ page \in DOMAIN Following => Assigned(c, u).superuser = c.superuser
<1> DEFINE d == Assigned(c, u)
<1>1. u \in Names \cup {None}
  BY DEF Names
<1>2. CASE page \in Questions
  <2>1. d = [c EXCEPT !.answers = @ \ {page}, !.blank = @ \cup {page}]
    BY <1>2 DEF Assigned, Questions
  <2>2. c.answers \ {page} \in SUBSET Questions
        /\ c.blank \cup {page} \in SUBSET (Questions \cup {"createSuperuserAndFacility"})
    BY <1>2 DEF Contexts
  <2>3. d \in Contexts /\ d.importedUsers = c.importedUsers /\ d.use = c.use
        /\ d.device = c.device /\ d.facilityNewOrImport = c.facilityNewOrImport
        /\ d.superuser = c.superuser
        /\ d.answers = c.answers \ {page} /\ d.blank = c.blank \cup {page}
    BY <2>1, <2>2 DEF Contexts
  <2> HIDE DEF d
  <2> QED BY <1>2, <2>3 DEF d, Questions
<1>3. CASE page = "createSuperuserAndFacility"
  <2>1. d = [c EXCEPT !.superuser = u, !.blank = @ \cup {page}]
    BY <1>3 DEF Assigned, Questions
  <2>2. c.blank \cup {page} \in SUBSET (Questions \cup {"createSuperuserAndFacility"})
    BY <1>3 DEF Contexts
  <2>3. d \in Contexts /\ d.importedUsers = c.importedUsers /\ d.use = c.use
        /\ d.device = c.device /\ d.facilityNewOrImport = c.facilityNewOrImport
        /\ d.answers = c.answers /\ d.blank = c.blank \cup {page}
    BY <1>1, <2>1, <2>2 DEF Contexts
  <2>4. page \notin DOMAIN Following
    BY <1>3, FollowingPages DEF Questions
  <2> HIDE DEF d
  <2> QED BY <1>3, <2>3, <2>4 DEF d, Questions
<1>4. CASE page \notin Questions \cup {"createSuperuserAndFacility"}
  <2>1. CASE page = "howAreYouUsingKolibri"
    BY <2>1, FollowingPages DEF Assigned, Contexts, Questions
  <2>2. CASE page = "fullOrLearnOnlyDevice"
    BY <2>2, FollowingPages DEF Assigned, Contexts, Questions
  <2>3. CASE page = "fullDeviceNewOrImportFacility"
    BY <2>3, FollowingPages DEF Assigned, Contexts, Questions
  <2>4. CASE page \notin {"howAreYouUsingKolibri", "fullOrLearnOnlyDevice",
                          "fullDeviceNewOrImportFacility"}
    <3>1. \/ d = [c EXCEPT !.superuser = u]
             /\ page \in {"createOnMyOwnAccount", "selectSuperAdminAccountForm",
                          "lodImportUserAuth"}
          \/ d = [c EXCEPT !.selectedFacility = None] \/ d = [c EXCEPT !.lodImportOrJoin = None]
          \/ d = c
      BY <1>4, <2>4 DEF Assigned, WithSuperAdmin
    <3>2. page \in {"createOnMyOwnAccount", "selectSuperAdminAccountForm",
                    "lodImportUserAuth"} => page \notin DOMAIN Following
      BY FollowingPages DEF Questions
    <3>3. /\ d \in Contexts /\ Same(d, c) /\ d.answers = c.answers /\ d.blank = c.blank
          /\ page \in DOMAIN Following => d.superuser = c.superuser
      <4> HIDE DEF d
      <4> QED BY <1>1, <3>1, <3>2 DEF Contexts, Same
    <3> HIDE DEF d
    <3> QED BY <1>4, <3>3 DEF d, Same
  <2> QED BY <2>1, <2>2, <2>3, <2>4
<1> QED BY <1>2, <1>3, <1>4

\* The page that a CONTINUE leads to, wherever it comes.
LEMMA OnwardFits ==
    ASSUME Inv, page \in DOMAIN Onward, NEW c \in Contexts, Alike(c, ctx),
           NEW u \in Users \cup {None}
    PROVE  Onward[page] \in Pages \ {"gone"} /\ Fits(Onward[page], Assigned(c, u))
<1> DEFINE d == Assigned(c, u)
<1>1. ctx \in Contexts /\ Fits(page, ctx) /\ Fits(page, c)
  BY Parts, AlikeFits
<1>2. /\ d \in Contexts /\ d.importedUsers = c.importedUsers
      /\ c.answers \cup c.blank \cup ({page} \cap Questions) \subseteq d.answers \cup d.blank
      /\ page # "howAreYouUsingKolibri" => d.use = c.use
      /\ page # "fullOrLearnOnlyDevice" => d.device = c.device
      /\ page # "fullDeviceNewOrImportFacility" => d.facilityNewOrImport = c.facilityNewOrImport
      /\ page = "createSuperuserAndFacility" => page \in d.blank
      /\ page \in DOMAIN Following => d.superuser = c.superuser
  BY AssignedContext
<1> HIDE DEF d
<1>3. CASE page \in DOMAIN Following /\ Onward[page] = Following[page]
  <2>1. page \notin {"howAreYouUsingKolibri", "fullOrLearnOnlyDevice",
                     "fullDeviceNewOrImportFacility"}
    BY <1>3, FollowingPages DEF Questions
  <2>2. Same(d, c)
    BY <1>2, <2>1 DEF Same
  <2> QED BY <1>1, <1>2, <1>3, <2>2, FollowingFits DEF d
<1>4. CASE page = "createOnMyOwnAccount" /\ Onward[page] = "finalizeSetup"
  <2>1. d.use = "personal"
    BY <1>1, <1>2, <1>4 DEF Fits, PersonalPages
  <2> QED BY <1>4, <2>1, EndFits DEF d
<1>5. CASE page = "createSuperuserAndFacility" /\ Onward[page] = "finalizeSetup"
  <2>1. Questions \subseteq c.answers \cup c.blank
    BY <1>1, <1>5 DEF Fits, AnsweredBefore
  <2>2. Questions \subseteq d.answers \cup d.blank /\ "createSuperuserAndFacility" \in d.blank
    BY <1>2, <1>5, <2>1
  <2>3. Fits("finalizeSetup", d)
    BY <2>2 DEF Fits, SetUp, PersonalPages, NewPages, Questions, ImportPages,
       LodPages, AnsweredBefore
  <2> QED BY <1>5, <2>3 DEF Pages, d
<1>6. CASE /\ page \in {"selectFacilityForm", "importAuthentication", "loadingTaskPage",
                        "selectSuperAdminAccountForm"}
           /\ Onward[page] \in {"importAuthentication", "loadingTaskPage",
                                "selectSuperAdminAccountForm", "personalDataConsentForm"}
  <2>1. d.device = "full" /\ d.facilityNewOrImport = "import"
    BY <1>1, <1>2, <1>6 DEF Fits, ImportPages
  <2>2. ASSUME NEW p \in ImportPages PROVE Fits(p, d) /\ p \in Pages \ {"gone"}
    BY <2>1, <2>2 DEF Fits, PersonalPages, NewPages, Questions, ImportPages,
       LodPages, AnsweredBefore, Pages
  <2>3. Onward[page] \in ImportPages
    BY <1>6 DEF ImportPages
  <2> QED BY <2>2, <2>3 DEF d
<1>7. CASE page \in LodPages /\ Onward[page] \in LodPages
  <2>1. d.device = "lod"
    BY <1>1, <1>2, <1>7 DEF Fits, LodPages
  <2> QED BY <1>7, <2>1, LodFits DEF d
<1>8. CASE Onward[page] = "nowhere"
  BY <1>8, FreePages DEF Pages
<1> QED BY <1>3, <1>4, <1>5, <1>6, <1>7, <1>8, OnwardPages

\* CONTINUE leaves the wizard in order on whatever page it comes to.
LEMMA ContinueKeeps ==
    ASSUME Inv, NEW c \in Contexts, Alike(c, ctx), NEW u \in Users \cup {None}, Continue(c, u),
           UNCHANGED <<residue, shared, typed, here>>
    PROVE  WizardInv' /\ PageTypes'
<1>1. /\ residue' \subseteq here' /\ residue' \subseteq Users /\ shared' \in BOOLEAN
      /\ typed' \in Names \cup {None} /\ c.importedUsers \subseteq here'
  BY Parts DEF WizardTypes, Alike, Same
<1>2. CASE page \in DOMAIN Onward /\ ~Raises(c, u)
  <2> DEFINE p == Onward[page]
             d == Assigned(c, u)
  <2>1. Go(p, d)
    BY <1>2 DEF Continue
  <2>2. p \in Pages \ {"gone"} /\ Fits(p, d)
    BY <1>2, OnwardFits
  <2>3. d \in Contexts /\ d.importedUsers \subseteq here'
    BY <1>1, AssignedContext
  <2> HIDE DEF p, d
  <2> QED BY <1>1, <2>1, <2>2, <2>3, GoKeeps
<1>3. CASE ~(page \in DOMAIN Onward /\ ~Raises(c, u))
  <2>1. /\ ctx' = c /\ page' = page /\ UNCHANGED views
        /\ saved' = [page |-> page, ctx |-> c] \/ (saved' = saved /\ c = ctx)
    BY <1>3 DEF Continue
  <2>2. Fits(page, c)
    BY Parts, AlikeFits
  <2>3. WizardInv'
    BY <1>1, <2>1, <2>2, StayKeeps
  <2>4. PageTypes'
    BY <2>1, Parts DEF PageTypes, views
  <2> QED BY <2>3, <2>4
<1> QED BY <1>2, <1>3

\* The answer to a request, on whatever page it is heard.
LEMMA StartedKeeps ==
    ASSUME Inv, NEW r \in Requests, Started(r)
    PROVE  Inv'
<1> DEFINE t == tasks[r]
           u == t.of
           c == IF t.from = "lodImportUserAuth" /\ page \in LodPages THEN WithFirst(u) ELSE ctx
<1>1. /\ t.answer = "yes" /\ tasks' = [tasks EXCEPT ![r] = Left(r, t.state, "none")]
      /\ UNCHANGED <<osUser, residue, shared, typed, clears, here, provisioned, detours>>
      /\ CASE t.from = "lodImportUserAuth" ->
                  Continue(c, IF ctx.importedUsers = {} THEN u ELSE None)
           [] t.from \in {"importAuthentication", "lodJoinFacility"} -> Continue(ctx, None)
           [] OTHER -> UNCHANGED <<page, ctx, saved, views>>
      /\ coreError' = \/ coreError /\ page' # "finalizeSetup"
                      \/ t.from = "lodJoinFacility" /\ Raises(ctx, None)
  BY DEF Started
<1>2. t \in Tasks /\ Holds(t, here) /\ ctx \in Contexts
  BY Parts DEF ServerInv
<1>3. ServerInv'
  <2>1. /\ t.state \in {"none", "running", "completed", "failed"}
        /\ t.state = "completed" => t.of \in here
    BY <1>2 DEF Tasks, Holds
  <2>2. Left(r, t.state, "none") \in Tasks /\ Holds(Left(r, t.state, "none"), here)
    BY <1>1, <2>1, LeftHolds
  <2> QED BY <1>1, <2>2, LeftKeeps
<1>4. Alike(ctx, ctx)
  BY DEF Alike, Same
<1>5. WizardInv' /\ PageTypes'
  <2>1. CASE t.from = "lodImportUserAuth"
    <3>1. u \in Users
      BY <1>1, <1>2, <2>1 DEF Holds, UserPages
    <3>2. c \in Contexts /\ Alike(c, ctx)
      BY <1>2, <1>4, <3>1, NamedContext DEF Alike
    <3> DEFINE v == IF ctx.importedUsers = {} THEN u ELSE None
    <3>3. v \in Users \cup {None} /\ Continue(c, v)
      BY <1>1, <2>1, <3>1
    <3> HIDE DEF c, v
    <3> QED BY <1>1, <3>2, <3>3, ContinueKeeps
  <2>2. CASE t.from \in {"importAuthentication", "lodJoinFacility"}
    <3>1. Continue(ctx, None)
      BY <1>1, <2>2
    <3> QED BY <1>1, <1>2, <1>4, <3>1, ContinueKeeps
  <2>3. CASE t.from \notin {"lodImportUserAuth", "importAuthentication", "lodJoinFacility"}
    <3>1. UNCHANGED <<page, ctx, saved, views>>
      BY <1>1, <2>3
    <3>2. PageTypes' /\ UNCHANGED wizard /\ here \subseteq here'
      BY <1>1, <3>1, Parts DEF PageTypes, views, wizard
    <3> QED BY <3>2, WizardSame
  <2> QED BY <2>1, <2>2, <2>3
<1>6. OtherTypes'
  <2>1. coreError' \in BOOLEAN
    BY <1>1
  <2> QED BY <1>1, <2>1, Parts DEF OtherTypes
<1> QED BY <1>3, <1>5, <1>6 DEF Inv

\* The answer that there is no import.
LEMMA NotStartedKeeps ==
    ASSUME Inv, NEW r \in Requests, NotStarted(r)
    PROVE  Inv'
<1> DEFINE t == tasks[r]
<1>1. /\ t.answer = "no" /\ tasks' = [tasks EXCEPT ![r] = Left(r, t.state, "none")]
      /\ importing' \subseteq importing
      /\ coreError' = (coreError \/ t.from = "lodJoinFacility")
      /\ UNCHANGED <<osUser, wizard, shown, polling, following, post, clears, here, provisioned,
                     detours>>
  BY DEF NotStarted
<1>2. t \in Tasks /\ Holds(t, here)
  BY Parts DEF ServerInv
<1>3. ServerInv'
  <2>1. /\ t.state \in {"none", "running", "completed", "failed"}
        /\ t.state = "completed" => t.of \in here
    BY <1>2 DEF Tasks, Holds
  <2>2. Left(r, t.state, "none") \in Tasks /\ Holds(Left(r, t.state, "none"), here)
    BY <1>1, <2>1, LeftHolds
  <2> QED BY <1>1, <2>2, LeftKeeps
<1>4. WizardInv'
  BY <1>1, WizardSame
<1>5. PageTypes'
  BY <1>1, Parts DEF PageTypes
<1>6. OtherTypes'
  <2>1. coreError' \in BOOLEAN
    BY <1>1
  <2> QED BY <1>1, <2>1, Parts DEF OtherTypes
<1> QED BY <1>3, <1>4, <1>5, <1>6 DEF Inv

-----------------------------------------------------------------------------
(* The pages that follow an import.                                        *)

\* Accounts whose task is completed are on the device.
LEMMA CompletedAreHere ==
    ASSUME Inv
    PROVE  CompletedUsers \subseteq here /\ CompletedUsers \subseteq Users
<1> SUFFICES ASSUME NEW u \in CompletedUsers PROVE u \in here /\ u \in Users
  OBVIOUS
<1>1. PICK r \in Requests : tasks[r].state = "completed" /\ tasks[r].of = u /\ u \in Users
  BY DEF CompletedUsers
<1> QED BY <1>1, Parts DEF ServerInv, Holds

\* The page that follows an import.
LEMMA AfterImportFits ==
    ASSUME Inv, page \in LoadingPages
    PROVE  AfterImport \in Pages \ {"gone"} /\ Fits(AfterImport, ctx)
<1>1. CASE page \in {"lodLoading", "lodJoinLoading"}
  <2>1. ctx.device = "lod"
    BY <1>1, Parts DEF Fits, LodPages
  <2>2. AfterImport = "finalizeSetup"
    BY <2>1 DEF AfterImport
  <2> QED BY <2>1, <2>2, EndFits
<1>2. CASE page = "loadingTaskPage"
  <2>1. ctx.device = "full" /\ ctx.facilityNewOrImport = "import"
    BY <1>2, Parts DEF Fits, ImportPages
  <2>2. AfterImport = "selectSuperAdminAccountForm"
    BY <2>1 DEF AfterImport
  <2>3. Fits(AfterImport, ctx)
    BY <2>1, <2>2 DEF Fits, PersonalPages, NewPages, Questions, ImportPages, LodPages,
       AnsweredBefore
  <2> QED BY <2>2, <2>3 DEF Pages, ImportPages
<1> QED BY <1>1, <1>2 DEF LoadingPages

\* The wizard goes on, and asks to clear the tasks.
LEMMA MoveAlongKeeps ==
    ASSUME Inv, page \in LoadingPages, MoveAlong, UNCHANGED <<residue, shared, typed, here>>
    PROVE  WizardInv' /\ PageTypes' /\ clears' \subseteq ClearRequests
<1>1. Go(AfterImport, ctx) /\ clears' = clears \cup {[queue |-> Queue, over |-> FALSE]}
  BY DEF MoveAlong
<1>2. /\ residue' \subseteq here' /\ residue' \subseteq Users /\ shared' \in BOOLEAN
      /\ typed' \in Names \cup {None} /\ ctx.importedUsers \subseteq here' /\ ctx \in Contexts
      /\ clears \subseteq ClearRequests
  BY Parts DEF WizardTypes, OtherTypes
<1>3. WizardInv' /\ PageTypes'
  BY <1>1, <1>2, AfterImportFits, GoKeeps
<1>4. [queue |-> Queue, over |-> FALSE] \in ClearRequests
  <2>1. Queue \in {Users, Facilities}
    BY DEF Queue
  <2> QED BY <2>1 DEF ClearRequests
<1> QED BY <1>1, <1>2, <1>3, <1>4

\* Users on the device are added to those that are listed; nothing else changes
\* in a context that a superuser may have been named in.
LEMMA AddKeeps ==
    ASSUME Inv, NEW S \in SUBSET Users, S \subseteq here, NEW first \in S, NEW c \in Contexts,
           c.device = ctx.device, c.importedUsers = ctx.importedUsers,
           page \in LodPages, Add(S, first, c), Save(page, ctx'),
           UNCHANGED <<page, typed, here>>
    PROVE  WizardInv'
<1> DEFINE d == [c EXCEPT !.importedUsers = @ \cup S]
<1>1. /\ ctx' = d /\ shared' = FALSE /\ residue' \subseteq residue \cup {first}
      /\ saved' = [page |-> page, ctx |-> ctx']
  BY DEF Add, Save
<1>2. ctx.device = "lod" /\ ctx.importedUsers \subseteq Users /\ ctx.importedUsers \subseteq here
      /\ residue \subseteq here /\ residue \subseteq Users /\ typed \in Names \cup {None}
  BY Parts DEF Fits, WizardTypes
<1>3. /\ d \in Contexts /\ d.importedUsers = ctx.importedUsers \cup S /\ d.device = "lod"
  BY <1>2 DEF Contexts
<1>4. Fits(page, d)
  BY <1>3, LodFits
<1> HIDE DEF d
<1> QED BY <1>1, <1>2, <1>3, <1>4, StayKeeps

\* The poll of a loading page: it lists the users whose import is completed, or
\* moves along when there is no task.
LEMMA LoadingPollKeeps ==
    ASSUME Inv, LoadingPoll
    PROVE  Inv'
<1>1. /\ page \in LoadingPages
      /\ coreError' = (coreError /\ page' # "finalizeSetup")
      /\ UNCHANGED <<osUser, typed, server, detours>>
  BY DEF LoadingPoll
<1>2. coreError' \in BOOLEAN /\ here' = here /\ ServerInv'
  BY <1>1, ServerSame DEF server
<1>3. CASE Listed = {}
  <2>1. MoveAlong /\ UNCHANGED <<residue, shared>>
    BY <1>3 DEF LoadingPoll
  <2>2. WizardInv' /\ PageTypes' /\ clears' \subseteq ClearRequests
    BY <1>1, <1>2, <2>1, MoveAlongKeeps
  <2>3. OtherTypes'
    BY <1>1, <1>2, <2>2, Parts DEF OtherTypes
  <2> QED BY <1>2, <2>2, <2>3 DEF Inv
<1>4. CASE Listed # {}
  <2>1. /\ shown' = ShownStatus /\ polling' \in {"on", "off"}
        /\ UNCHANGED <<page, following, importing, post, clears>>
        /\ IF page \in LodPages /\ CompletedUsers # {}
           THEN (\E first \in CompletedUsers : Add(CompletedUsers, first, ctx)) /\ Save(page, ctx')
           ELSE UNCHANGED <<ctx, residue, shared, saved>>
    BY <1>4 DEF LoadingPoll
  <2>2. ShownStatus \in {"none", "running", "completed", "failed"}
    BY DEF ShownStatus
  <2>3. PageTypes'
    BY <2>1, <2>2, Parts DEF PageTypes
  <2>4. WizardInv'
    <3>1. CASE page \in LodPages /\ CompletedUsers # {}
      <4>1. PICK first \in CompletedUsers : Add(CompletedUsers, first, ctx)
        BY <2>1, <3>1
      <4>2. Save(page, ctx') /\ UNCHANGED <<page, typed, here>> /\ ctx \in Contexts
        BY <1>1, <1>2, <2>1, <3>1, Parts
      <4> QED BY <3>1, <4>1, <4>2, CompletedAreHere, AddKeeps
    <3>2. CASE ~(page \in LodPages /\ CompletedUsers # {})
      <4>1. UNCHANGED wizard /\ here \subseteq here'
        BY <1>1, <1>2, <2>1, <3>2 DEF wizard
      <4> QED BY <4>1, WizardSame
    <3> QED BY <3>1, <3>2
  <2>5. OtherTypes'
    BY <1>1, <1>2, <2>1, Parts DEF OtherTypes
  <2> QED BY <1>2, <2>3, <2>4, <2>5 DEF Inv
<1> QED BY <1>3, <1>4

\* The poll of ImportMultipleUsers, on whatever page is shown.
LEMMA FollowImportsKeeps ==
    ASSUME Inv, FollowImports
    PROVE  Inv'
<1> DEFINE new == CompletedUsers \ ctx.importedUsers
           c(first) == IF /\ ctx.importedUsers = {}
                          /\ page \in {"lodLoading", "lodImportAsAdmin", "lodJoinLoading"}
                       THEN WithSuperAdmin(ctx, first) ELSE ctx
<1>1. /\ importing' \subseteq importing
      /\ UNCHANGED <<osUser, page, typed, shown, polling, following, post, clears, coreError,
                     server, detours>>
      /\ IF new # {} /\ page \in LodPages
         THEN \E first \in new : Add(new, first, c(first)) /\ Save(page, ctx')
         ELSE UNCHANGED <<ctx, residue, shared, saved>>
  BY DEF FollowImports
<1>2. here' = here /\ ServerInv' /\ PageTypes' /\ OtherTypes'
  BY <1>1, ServerSame, Parts DEF server, PageTypes, OtherTypes
<1>3. WizardInv'
  <2>1. CASE new # {} /\ page \in LodPages
    <3>1. PICK first \in new : Add(new, first, c(first)) /\ Save(page, ctx')
      BY <1>1, <2>1
    <3>2. new \in SUBSET Users /\ new \subseteq here /\ first \in Users
      BY CompletedAreHere
    <3> DEFINE d == c(first)
    <3>3. d \in Contexts /\ d.device = ctx.device /\ d.importedUsers = ctx.importedUsers
      <4>1. ctx \in Contexts /\ first \in Names
        BY <3>2, Parts DEF Names
      <4>2. d = ctx \/ d = [ctx EXCEPT !.superuser = first]
        BY DEF WithSuperAdmin
      <4> HIDE DEF d
      <4> QED BY <4>1, <4>2 DEF Contexts
    <3>4. Add(new, first, d) /\ Save(page, ctx') /\ UNCHANGED <<page, typed, here>>
      BY <1>1, <1>2, <3>1
    <3> HIDE DEF d, new, c
    <3> QED BY <2>1, <3>2, <3>3, <3>4, AddKeeps
  <2>2. CASE ~(new # {} /\ page \in LodPages)
    <3>1. UNCHANGED wizard /\ here \subseteq here'
      BY <1>1, <1>2, <2>2 DEF wizard
    <3> QED BY <3>1, WizardSame
  <2> QED BY <2>1, <2>2
<1> QED BY <1>2, <1>3 DEF Inv

\* The user goes on after an import.
LEMMA ContinueImportKeeps ==
    ASSUME Inv, ContinueImport
    PROVE  Inv'
<1>1. /\ page \in LoadingPages /\ MoveAlong
      /\ UNCHANGED <<osUser, residue, shared, typed, coreError, server, detours>>
  BY DEF ContinueImport
<1>2. here' = here /\ ServerInv'
  BY <1>1, ServerSame DEF server
<1>3. WizardInv' /\ PageTypes' /\ clears' \subseteq ClearRequests
  BY <1>1, <1>2, MoveAlongKeeps
<1>4. OtherTypes'
  BY <1>1, <1>3, Parts DEF OtherTypes
<1> QED BY <1>2, <1>3, <1>4 DEF Inv

\* Steps of a loading page that leave the wizard and the server alone.
LEMMA PageStepKeeps ==
    ASSUME Inv, LoadingPollFails \/ RetryRefused \/ AskStartOver
    PROVE  Inv'
<1>1. /\ UNCHANGED <<osUser, wizard, shown, following, importing, post, server>>
      /\ polling' \in {"on", "off", "lost"} /\ detours' \in 0..MaxDetours
      /\ coreError' \in BOOLEAN /\ clears' \subseteq ClearRequests
  <2>1. polling \in {"on", "off", "lost"} /\ coreError \in BOOLEAN /\ clears \subseteq ClearRequests
        /\ detours \in 0..MaxDetours
    BY Parts DEF PageTypes, OtherTypes
  <2>2. CASE LoadingPollFails
    BY <2>1, <2>2, Bounds DEF LoadingPollFails, MayFail, Detour
  <2>3. CASE RetryRefused
    BY <2>1, <2>3, Bounds DEF RetryRefused, MayFail, Detour, views
  <2>4. CASE AskStartOver
    <3>1. /\ UNCHANGED <<osUser, wizard, shown, following, importing, post, coreError, server>>
          /\ clears' = clears \cup {[queue |-> Queue, over |-> TRUE]} /\ polling' = "off"
          /\ Detour
      BY <2>4 DEF AskStartOver
    <3>2. [queue |-> Queue, over |-> TRUE] \in ClearRequests
      <4>1. Queue \in {Users, Facilities}
        BY DEF Queue
      <4> QED BY <4>1 DEF ClearRequests
    <3> QED BY <2>1, <3>1, <3>2, DetourType
  <2> QED BY <2>2, <2>3, <2>4
<1>2. here \subseteq here' /\ ServerInv'
  BY <1>1, ServerSame DEF server
<1>3. WizardInv'
  BY <1>1, <1>2, WizardSame
<1>4. PageTypes' /\ OtherTypes'
  BY <1>1, Parts DEF PageTypes, OtherTypes
<1> QED BY <1>2, <1>3, <1>4 DEF Inv

\* A task that failed runs again.
LEMMA RetryImportKeeps ==
    ASSUME Inv, NEW r \in Requests, RetryImport(r)
    PROVE  Inv'
<1> DEFINE t == [tasks[r] EXCEPT !.state = "running"]
<1>1. /\ tasks[r].state = "failed" /\ tasks' = [tasks EXCEPT ![r] = t]
      /\ UNCHANGED <<osUser, wizard, views, clears, coreError, here, provisioned, detours>>
  BY DEF RetryImport
<1>2. tasks[r] \in Tasks /\ Holds(tasks[r], here) /\ here \subseteq Imports
  BY Parts DEF ServerInv
<1>3. t \in Tasks /\ Holds(t, here')
  BY <1>1, <1>2 DEF Tasks, Holds
<1> HIDE DEF t
<1>4. ServerInv' /\ WizardInv'
  BY <1>1, <1>2, <1>3, TaskKeeps, WizardSame
<1>5. PageTypes' /\ OtherTypes'
  BY <1>1, Parts DEF PageTypes, OtherTypes, views
<1> QED BY <1>4, <1>5 DEF Inv

-----------------------------------------------------------------------------
(* START_OVER, and another load of the page.                               *)

\* The context that START_OVER leaves lists what was pushed to the shared array.
LEMMA StartOverKeeps ==
    ASSUME Inv, StartOver
    PROVE  WizardInv' /\ PageTypes' /\ UNCHANGED <<osUser, here, provisioned>>
<1>1. /\ Go("howAreYouUsingKolibri", Reset) /\ shared' = TRUE
      /\ UNCHANGED <<osUser, residue, typed, here, provisioned>>
  BY DEF StartOver
<1>2. residue \subseteq here /\ residue \subseteq Users /\ typed \in Names \cup {None}
  BY Parts DEF WizardTypes
<1>3. Reset \in Contexts /\ Reset.importedUsers = residue
  BY <1>2 DEF Reset, initialContext, Contexts
<1>4. "howAreYouUsingKolibri" \in Pages \ {"gone"}
  BY DEF Pages
<1> QED BY <1>1, <1>2, <1>3, <1>4, FreePages, GoKeeps

\* The button of a page with an error.
LEMMA ErrorStartOverKeeps ==
    ASSUME Inv, ErrorStartOver
    PROVE  Inv'
<1>1. Detour /\ StartOver /\ coreError' = FALSE /\ UNCHANGED <<clears, tasks>>
  BY DEF ErrorStartOver
<1>2. WizardInv' /\ PageTypes' /\ UNCHANGED <<osUser, here, provisioned>>
  BY <1>1, StartOverKeeps
<1>3. ServerInv'
  BY <1>1, <1>2, ServerSame DEF server
<1>4. OtherTypes'
  BY <1>1, <1>2, DetourType, Parts DEF OtherTypes
<1> QED BY <1>2, <1>3, <1>4 DEF Inv

\* The server clears a queue; START_OVER waits for that.
LEMMA ServeClearKeeps ==
    ASSUME Inv, NEW c \in ClearRequests, NEW failed \in BOOLEAN, ServeClear(c, failed)
    PROVE  Inv'
<1>1. /\ clears' = clears \ {c} /\ MayFail(failed) /\ coreError' = coreError
      /\ tasks' = IF failed THEN tasks ELSE Cleared(c.queue)
      /\ StartOver \/ UNCHANGED <<osUser, wizard, views, here, provisioned>>
  BY DEF ServeClear
<1>2. WizardInv' /\ PageTypes' /\ UNCHANGED <<osUser, here, provisioned>>
  <2>1. CASE StartOver
    BY <2>1, StartOverKeeps
  <2>2. CASE UNCHANGED <<osUser, wizard, views, here, provisioned>>
    BY <2>2, WizardSame, Parts DEF PageTypes, views
  <2> QED BY <1>1, <2>1, <2>2
<1>3. ServerInv'
  <2>1. tasks \in [Requests -> Tasks] /\ \A r \in Requests : Holds(tasks[r], here)
    BY Parts DEF ServerInv
  <2>2. ASSUME NEW r \in Requests
        PROVE  Cleared(c.queue)[r] \in Tasks /\ Holds(Cleared(c.queue)[r], here)
    <3> DEFINE t == tasks[r]
    <3>1. Cleared(c.queue)[r] = Left(r, "none", t.answer) \/ Cleared(c.queue)[r] = t
      BY DEF Cleared
    <3>2. t.answer \in {"none", "awaited", "yes", "no"} /\ t \in Tasks /\ Holds(t, here)
      BY <2>1 DEF Tasks
    <3>3. Left(r, "none", t.answer) \in Tasks /\ Holds(Left(r, "none", t.answer), here)
      BY <3>2, LeftHolds
    <3> QED BY <3>1, <3>2, <3>3
  <2>3. Cleared(c.queue) = [r \in Requests |-> Cleared(c.queue)[r]]
    BY DEF Cleared
  <2>4. tasks' \in [Requests -> Tasks] /\ \A r \in Requests : Holds(tasks'[r], here)
    <3>1. CASE failed
      BY <1>1, <2>1, <3>1
    <3>2. CASE ~failed
      BY <1>1, <2>2, <2>3, <3>2
    <3> QED BY <3>1, <3>2
  <2> QED BY <1>2, <2>4, Parts DEF ServerInv
<1>4. OtherTypes'
  <2>1. detours' \in 0..MaxDetours
    BY <1>1, Parts, Bounds DEF MayFail, Detour, OtherTypes
  <2> QED BY <1>1, <1>2, <2>1, Parts DEF OtherTypes
<1> QED BY <1>2, <1>3, <1>4 DEF Inv

\* A reload resumes the state that was saved, which is the one that was shown.
LEMMA ReloadKeeps ==
    ASSUME Inv, Reload
    PROVE  Inv'
<1> DEFINE left(r) == [tasks[r] EXCEPT !.from = None,
                                       !.answer = IF @ = "awaited" THEN @ ELSE "none"]
<1>1. /\ Detour /\ page # "gone"
      /\ polling' \in {"on", "off"} /\ shown' = "none" /\ importing' = {}
      /\ following' = (page' = "lodImportAsAdmin") /\ post' \in {"idle", "asked"}
      /\ coreError' = FALSE /\ clears' = {[c EXCEPT !.over = FALSE] : c \in clears}
      /\ tasks' = [r \in Requests |-> left(r)]
      /\ residue' = {} /\ shared' = (saved = None) /\ typed' = None
      /\ UNCHANGED <<osUser, saved, here, provisioned>>
  BY DEF Reload
<1>2. /\ \/ page' = "gone" /\ ctx' = ctx
         \/ saved = None /\ page' = "howAreYouUsingKolibri" /\ ctx' = initialContext
         \/ saved # None /\ page' = saved.page /\ ctx' = saved.ctx
  BY DEF Reload
<1>3. WizardTypes /\ SavedIsShown /\ Fits(page, ctx) /\ ctx.importedUsers \subseteq here
  BY Parts
<1>4. \/ page' = "gone" /\ ctx' = ctx
      \/ saved = None /\ page' = "howAreYouUsingKolibri" /\ ctx' = initialContext
      \/ page' = page /\ ctx' = ctx /\ saved = [page |-> page, ctx |-> ctx]
  <2>1. CASE saved = None
    BY <1>2, <2>1
  <2>2. CASE saved # None
    <3>1. saved = [page |-> page, ctx |-> ctx]
      BY <1>1, <1>3, <2>2 DEF SavedIsShown
    <3> QED BY <1>2, <2>2, <3>1
  <2> QED BY <2>1, <2>2
<1>5. initialContext \in Contexts /\ initialContext.importedUsers = {}
  BY DEF initialContext, Contexts
<1>6. following' \in BOOLEAN /\ shared' \in BOOLEAN
  BY <1>1
<1>7. WizardTypes'
  BY <1>1, <1>3, <1>4, <1>5, <1>6 DEF WizardTypes, Pages
<1>8. PageTypes'
  BY <1>1, <1>6 DEF PageTypes
<1>9. OtherTypes'
  <2>1. clears' \subseteq ClearRequests
    <3> SUFFICES ASSUME NEW d \in clears' PROVE d \in ClearRequests
      OBVIOUS
    <3>1. PICK c \in clears : d = [c EXCEPT !.over = FALSE]
      BY <1>1
    <3> QED BY <3>1, Parts DEF OtherTypes, ClearRequests
  <2> QED BY <1>1, <2>1, DetourType, Parts DEF OtherTypes
<1>10. ServerInv'
  <2>1. ASSUME NEW r \in Requests PROVE left(r) \in Tasks /\ Holds(left(r), here)
    <3>1. tasks[r] \in Tasks /\ Holds(tasks[r], here)
      BY Parts DEF ServerInv
    <3>2. left(r) \in Tasks /\ left(r).state = tasks[r].state /\ left(r).of = tasks[r].of
          /\ left(r).facility = tasks[r].facility /\ left(r).from = None
      BY <3>1 DEF Tasks
    <3>3. left(r).answer # "none" => tasks[r].answer # "none"
      BY <3>1 DEF Tasks
    <3>4. None \notin UserPages
      BY NoPage DEF UserPages, Pages, LodPages
    <3> HIDE DEF left
    <3> QED BY <3>1, <3>2, <3>3, <3>4 DEF Holds
  <2>2. tasks' \in [Requests -> Tasks] /\ \A r \in Requests : Holds(tasks'[r], here')
    <3> HIDE DEF left
    <3> QED BY <1>1, <2>1
  <2> QED BY <1>1, <2>2, Parts DEF ServerInv
<1>11. SavedIsShown' /\ ImportedAreHere'
  BY <1>1, <1>3, <1>4, <1>5 DEF SavedIsShown, ImportedAreHere
<1>12. Fits(page, ctx)'
  BY <1>3, <1>4, FreePages
<1> QED BY <1>7, <1>8, <1>9, <1>10, <1>11, <1>12 DEF Inv, WizardInv

-----------------------------------------------------------------------------
(* The tasks, and the request that provisions the device.                  *)

\* What a task that ends has imported is on the device.
LEMMA EndTaskKeeps ==
    ASSUME Inv, NEW r \in Requests, NEW failed \in BOOLEAN, EndTask(r, failed)
    PROVE  Inv'
<1> DEFINE t == [tasks[r] EXCEPT !.state = IF failed THEN "failed" ELSE "completed"]
<1>1. /\ tasks[r].state = "running" /\ MayFail(failed)
      /\ tasks' = [tasks EXCEPT ![r] = t]
      /\ failed => here' = here
      /\ ~failed => here' = here \cup {tasks[r].of, tasks[r].facility}
                                 \cup (IF tasks[r].of \in Facilities THEN Users ELSE {})
      /\ UNCHANGED <<osUser, wizard, views, clears, coreError, provisioned>>
  BY DEF EndTask
<1>2. tasks[r] \in Tasks /\ Holds(tasks[r], here) /\ here \subseteq Imports
  BY Parts DEF ServerInv
<1>3. tasks[r].of \in Imports /\ tasks[r].facility \in Facilities
  BY <1>1, <1>2 DEF Holds
<1>4. /\ here \subseteq here' /\ here' \subseteq Imports
      /\ ~failed => tasks[r].of \in here'
  BY <1>1, <1>2, <1>3 DEF Imports
<1>5. /\ t \in Tasks /\ t.of = tasks[r].of /\ t.facility = tasks[r].facility
      /\ t.answer = tasks[r].answer /\ t.from = tasks[r].from
      /\ t.state = "completed" => ~failed
  BY <1>2 DEF Tasks
<1> HIDE DEF t
<1>6. Holds(t, here')
  BY <1>2, <1>3, <1>4, <1>5 DEF Holds
<1>7. ServerInv' /\ WizardInv'
  BY <1>1, <1>4, <1>5, <1>6, TaskKeeps, WizardSame
<1>8. detours' \in 0..MaxDetours
  BY <1>1, Parts, Bounds DEF MayFail, Detour, OtherTypes
<1>9. PageTypes' /\ OtherTypes'
  BY <1>1, <1>8, Parts DEF PageTypes, OtherTypes, views
<1> QED BY <1>7, <1>9 DEF Inv

\* What the wizard sends is of the kind that the server takes.
LEMMA PayloadType ==
    ASSUME Inv
    PROVE  Payload \in Payloads
<1>1. ctx \in Contexts /\ typed \in Names \cup {None}
  BY Parts DEF WizardTypes
<1> DEFINE own == OnMyOwn /\ osUser
           superuser == CASE own -> None
                          [] ~own /\ ctx.firstImportedLodUser # None -> ctx.firstImportedLodUser
                          [] ~own /\ ctx.firstImportedLodUser = None /\ ctx.superuser # None ->
                                 ctx.superuser
                          [] OTHER -> typed
<1>2. superuser \in Names \cup {None}
  <2>1. /\ ctx.firstImportedLodUser \in Users \cup {None} /\ ctx.superuser \in Names \cup {None}
        /\ Users \subseteq Names
    BY <1>1 DEF Contexts, Names
  <2> HIDE DEF own
  <2>2. CASE own
    BY <2>2
  <2>3. CASE ~own /\ ctx.firstImportedLodUser # None
    BY <2>1, <2>3
  <2>4. CASE ~own /\ ctx.firstImportedLodUser = None /\ ctx.superuser # None
    BY <2>1, <2>4
  <2>5. CASE ~own /\ ctx.firstImportedLodUser = None /\ ctx.superuser = None
    BY <1>1, <2>5
  <2> QED BY <2>2, <2>3, <2>4, <2>5
<1>3. ctx.selectedFacility \in Facilities \cup {None}
  BY <1>1 DEF Contexts
<1>4. Payload = [facility |-> ctx.selectedFacility, superuser |-> superuser,
                 preset |-> (OnMyOwn \/ "setFacilityPermissions" \in ctx.answers),
                 soud |-> (ctx.device = "lod")]
  BY DEF Payload
<1> HIDE DEF superuser
<1> QED BY <1>2, <1>3, <1>4 DEF Payloads

\* The request is answered, or its answer is lost, or it is repeated.
LEMMA FinalizeKeeps ==
    ASSUME Inv, Provision \/ ProvisionLost \/ RetryProvision
    PROVE  Inv'
<1>1. /\ UNCHANGED <<osUser, wizard, shown, polling, following, importing, clears, coreError,
                     tasks, here>>
      /\ post' \in {"asked", "done", "refused"}
      /\ provisioned' = Payload \/ provisioned' = provisioned
      /\ detours' = detours \/ MayFail(TRUE)
  BY DEF Provision, ProvisionLost, RetryProvision, server
<1>2. ServerInv'
  <2>1. provisioned' = None \/ provisioned' \in Payloads
    BY <1>1, PayloadType, Parts DEF ServerInv
  <2> QED BY <1>1, <2>1, Parts DEF ServerInv
<1>3. WizardInv'
  BY <1>1, WizardSame
<1>4. PageTypes' /\ OtherTypes'
  BY <1>1, DetourType, Parts DEF PageTypes, OtherTypes
<1> QED BY <1>2, <1>3, <1>4 DEF Inv

\* The browser is gone from the wizard.
LEMMA LeaveKeeps ==
    ASSUME Inv, Leave
    PROVE  Inv'
<1>1. /\ page' = "gone" /\ saved' = None /\ following' = FALSE /\ post' = "idle"
      /\ UNCHANGED <<osUser, ctx, residue, shared, typed, shown, polling, importing, clears,
                     coreError, server, detours>>
  BY DEF Leave
<1>2. here' = here /\ ServerInv'
  BY <1>1, ServerSame DEF server
<1>3. WizardTypes' /\ SavedIsShown' /\ ImportedAreHere'
  BY <1>1, <1>2, Parts DEF WizardTypes, SavedIsShown, ImportedAreHere, Pages
<1>4. Fits(page, ctx)'
  BY <1>1, FreePages
<1>5. PageTypes' /\ OtherTypes'
  BY <1>1, Parts DEF PageTypes, OtherTypes
<1> QED BY <1>2, <1>3, <1>4, <1>5 DEF Inv, WizardInv

-----------------------------------------------------------------------------
(* The theorems.                                                           *)

\* The wizard begins with nothing chosen and nothing imported.
LEMMA InitInv == Init => Inv
<1> SUFFICES ASSUME Init PROVE Inv
  OBVIOUS
<1>1. initialContext \in Contexts /\ initialContext.importedUsers = {}
  BY DEF initialContext, Contexts
<1>2. NoTask \in Tasks /\ NoTask.state = "none" /\ NoTask.answer = "none"
  BY DEF NoTask, Tasks
<1>3. /\ page = "howAreYouUsingKolibri" /\ ctx = initialContext /\ saved = None
      /\ residue = {} /\ shared = TRUE /\ typed = None /\ shown = "none" /\ polling = "off"
      /\ clears = {} /\ coreError = FALSE /\ following = FALSE /\ importing = {}
      /\ post = "idle" /\ tasks = [r \in Requests |-> NoTask] /\ here = {}
      /\ provisioned = None /\ osUser \in BOOLEAN /\ detours = 0
  BY DEF Init
<1>4. WizardInv
  <2>1. page \in Pages /\ shared \in BOOLEAN
    BY <1>3 DEF Pages
  <2>2. WizardTypes /\ SavedIsShown /\ ImportedAreHere
    BY <1>1, <1>3, <2>1 DEF WizardTypes, SavedIsShown, ImportedAreHere
  <2>3. Fits(page, ctx)
    BY <1>3, FreePages
  <2> QED BY <2>2, <2>3 DEF WizardInv
<1>5. PageTypes /\ OtherTypes
  <2>1. following \in BOOLEAN /\ coreError \in BOOLEAN
    BY <1>3
  <2> QED BY <1>3, <2>1, Bounds DEF PageTypes, OtherTypes
<1>6. ServerInv
  BY <1>2, <1>3 DEF ServerInv, Holds
<1> QED BY <1>4, <1>5, <1>6 DEF Inv

\* A step that changes nothing.
LEMMA StutterKeeps ==
    ASSUME Inv, UNCHANGED vars
    PROVE  Inv'
<1>1. UNCHANGED <<osUser, wizard, views, clears, coreError, server, detours>>
  BY DEF vars
<1>2. here' = here /\ ServerInv' /\ PageTypes' /\ OtherTypes'
  BY <1>1, ServerSame, Parts DEF server, PageTypes, OtherTypes, views
<1>3. WizardInv'
  BY <1>1, <1>2, WizardSame
<1> QED BY <1>2, <1>3 DEF Inv

\* Every step keeps the invariant: the questions, the requests for imports and
\* their answers, the polls, the request at the end, a restart, a reload, and what
\* the server does.
LEMMA NextInv == Inv /\ [Next]_vars => Inv'
<1> SUFFICES ASSUME Inv, [Next]_vars PROVE Inv'
  OBVIOUS
<1>1. CASE Ask
  BY <1>1, ChooseUseKeeps, AnswerKeeps, ChooseDeviceKeeps, ChooseFacilityKeeps,
     NameSuperuserKeeps, BackKeeps DEF Ask
<1>2. CASE Import
  BY <1>2, SelectFacilityKeeps, ChooseLodTypeKeeps, SubmitKeeps, ImportAsAdminKeeps, JoinKeeps,
     LodStepKeeps, ContinueImportKeeps, PageStepKeeps, RetryImportKeeps DEF Import
<1>3. CASE Answers
  BY <1>3, ServeStartKeeps, StartedKeeps, NotStartedKeeps DEF Answers
<1>4. CASE Polls
  BY <1>4, LoadingPollKeeps, PageStepKeeps, FollowImportsKeeps DEF Polls
<1>5. CASE Finalize
  BY <1>5, FinalizeKeeps, LeaveKeeps DEF Finalize
<1>6. CASE ErrorStartOver \/ Reload
  BY <1>6, ErrorStartOverKeeps, ReloadKeeps
<1>7. CASE \E c \in ClearRequests, failed \in BOOLEAN : ServeClear(c, failed)
  BY <1>7, ServeClearKeeps
<1>8. CASE \E r \in Requests, failed \in BOOLEAN : EndTask(r, failed)
  BY <1>8, EndTaskKeeps
<1>9. CASE UNCHANGED vars
  BY <1>9, StutterKeeps
<1> QED BY <1>1, <1>2, <1>3, <1>4, <1>5, <1>6, <1>7, <1>8, <1>9 DEF Next

\* In every state of the wizard the page, the context and the saved copy of both
\* fit together, whatever answers came to pages that did not ask for them, and the
\* tasks say what is on the device.
THEOREM WizardInvariant == Spec => []Inv
BY InitInv, NextInv, PTL DEF Spec

\* Every account that is listed as imported is on the device: ImportedAreHere,
\* through polls of pages that were left, reloads and restarts.
THEOREM ListedUsersAreHere == Spec => []ImportedAreHere
<1>1. Inv => ImportedAreHere
  BY DEF Inv, WizardInv
<1> QED BY <1>1, WizardInvariant, PTL

\* A new facility is only set up with all of its questions gone through, each
\* answered or passed by an event that was meant for another page:
\* NewFacilityIsAnswered.
THEOREM NewFacilitiesAreAnswered == Spec => []NewFacilityIsAnswered
<1>1. Inv => NewFacilityIsAnswered
  BY DEF Inv, WizardInv, Fits, SetUp, NewFacilityIsAnswered
<1> QED BY <1>1, WizardInvariant, PTL
=============================================================================
