------------------------------ MODULE SetupWizard ------------------------------
(***************************************************************************)
(* The wizard that sets a device up: the state machine of the pages, the   *)
(* copy of it that the browser keeps, the requests that start imports, the  *)
(* import tasks of the server that the pages poll, and the request that     *)
(* provisions the device.                                                   *)
(***************************************************************************)
EXTENDS FiniteSets, Integers

CONSTANTS
    Users,       \* accounts of the facility that is imported from
    Own,         \* the account that the user of the wizard types in
    Facilities,  \* facilities of the device that is imported from
    Requests,    \* bound: startTask requests and tasks that there are at once
    None,        \* null and undefined
    MaxDetours   \* bound: requests and tasks that fail, reloads of the page,
                 \* START_OVER and BACK events, all together

ASSUME Different == Own \notin Users /\ None \notin Users \cup {Own} \cup Facilities
                    /\ Users \cap Facilities = {} /\ Own \notin Facilities
ASSUME Bounds == MaxDetours \in Nat

VARIABLES
    osUser,      \* checkCapability('get_os_user'), never changes
    page,        \* the state of the machine
    ctx,         \* its context
    saved,       \* 'savedState' of Lockr, or None
    residue,     \* importedUsers of the object initialContext
    shared,      \* ctx.importedUsers is the array of initialContext
    typed,       \* onboardingData.user of the store
    shown,       \* status of the task that LoadingTaskPage shows
    polling,     \* the chain of polls of LoadingTaskPage
    clears,      \* requests to clear the tasks of a queue that are out
    following,   \* an ImportMultipleUsers that was mounted polls the tasks
    importing,   \* learnersBeingImported of the mounted one, by their requests
    post,        \* the deviceprovision request of SettingUpKolibri
    coreError,   \* an error hides the page, only START_OVER is left
    tasks,       \* startTask requests that are out, and jobs of the server
    here,        \* accounts and facilities on the device
    provisioned, \* what the device was provisioned with, or None
    detours      \* how many there were of what MaxDetours bounds

wizard == <<page, ctx, saved, residue, shared, typed>>
views == <<shown, polling, following, importing, post>>
server == <<tasks, here, provisioned>>
vars == <<osUser, wizard, views, clears, coreError, server, detours>>

Names == Users \cup {Own}
Imports == Users \cup Facilities
Questions == {"setFacilityPermissions", "guestAccess", "createLearnerAccount",
              "requirePassword"}
ImportPages == {"selectFacilityForm", "importAuthentication", "loadingTaskPage",
                "selectSuperAdminAccountForm", "personalDataConsentForm"}
LodPages == {"selectLodSetupType", "selectLodFacility", "lodImportUserAuth",
             "lodLoading", "lodImportAsAdmin", "lodJoinFacility", "lodJoinLoading"}
LoadingPages == {"loadingTaskPage", "lodLoading", "lodJoinLoading"}
Pages == {"howAreYouUsingKolibri", "defaultLanguage", "createOnMyOwnAccount",
          "deviceName", "fullOrLearnOnlyDevice", "fullDeviceNewOrImportFacility",
          "personalDataConsent", "createSuperuserAndFacility", "finalizeSetup", "gone",
          "nowhere"}
         \cup Questions \cup ImportPages \cup LodPages

ASSUME NoPage == None \notin Pages

\* answers holds the questions that were answered, blank the pages whose field
\* was set by an event meant for another page.
Contexts ==
    [use : {"personal", "group", None}, device : {"full", "lod", None},
     facilityNewOrImport : {"new", "import", None},
     lodImportOrJoin : {"import", "join", None},
     selectedFacility : Facilities \cup {None}, answers : SUBSET Questions,
     blank : SUBSET (Questions \cup {"createSuperuserAndFacility"}),
     superuser : Names \cup {None}, firstImportedLodUser : Users \cup {None},
     importedUsers : SUBSET Users]

initialContext ==
    [use |-> None, device |-> None, facilityNewOrImport |-> None,
     lodImportOrJoin |-> None, selectedFacility |-> None, answers |-> {},
     blank |-> {}, superuser |-> None, firstImportedLodUser |-> None, importedUsers |-> {}]

\* A job, what it imports, and the request that started it: the page that sent
\* it, as long as it is there to hear of it, and the answer.
NoTask == [state |-> "none", of |-> None, facility |-> None, from |-> None,
           answer |-> "none"]

Init ==
    /\ osUser \in BOOLEAN
    /\ page = "howAreYouUsingKolibri" /\ ctx = initialContext /\ saved = None
    /\ residue = {} /\ shared = TRUE /\ typed = None
    /\ shown = "none" /\ polling = "off" /\ clears = {} /\ coreError = FALSE
    /\ following = FALSE /\ importing = {} /\ post = "idle"
    /\ tasks = [r \in Requests |-> NoTask] /\ here = {} /\ provisioned = None
    /\ detours = 0

-----------------------------------------------------------------------------
(* A transition of the machine and the page that it mounts.                *)

\* The components that are mounted on page p; the pollers of the pages that
\* were left are not stopped by it.
Mount(p) ==
    /\ polling' = IF p \in LoadingPages THEN "on" ELSE "off"
    /\ shown' = "none"
    /\ following' = (following \/ p = "lodImportAsAdmin")
    /\ importing' = {}
    /\ post' = IF p = "finalizeSetup" THEN "asked" ELSE "idle"

Save(p, c) == saved' = [page |-> p, ctx |-> c]

\* onTransition: the router follows the machine, the state is saved.
Go(p, c) ==
    /\ page' = p /\ ctx' = c /\ Save(p, c)
    /\ Mount(p)

Quiet == UNCHANGED <<osUser, residue, shared, typed, clears, coreError, server, detours>>

Detour == detours < MaxDetours /\ detours' = detours + 1
MayFail(failed) == IF failed THEN Detour ELSE detours' = detours

-----------------------------------------------------------------------------
(* The questions.                                                          *)

ChooseUse(use) ==
    /\ page = "howAreYouUsingKolibri"
    /\ Go(IF use = "personal" THEN "defaultLanguage" ELSE "deviceName",
          [ctx EXCEPT !.use = use])
    /\ Quiet

\* The pages that only ask, and the one that follows each of them.
Following ==
    [p \in Questions \cup {"defaultLanguage", "deviceName", "personalDataConsent",
                           "personalDataConsentForm"} |->
        CASE p = "defaultLanguage" ->
                 IF osUser THEN "finalizeSetup" ELSE "createOnMyOwnAccount"
          [] p = "deviceName" -> "fullOrLearnOnlyDevice"
          [] p = "setFacilityPermissions" -> "guestAccess"
          [] p = "guestAccess" -> "createLearnerAccount"
          [] p = "createLearnerAccount" -> "requirePassword"
          [] p = "requirePassword" -> "personalDataConsent"
          [] p = "personalDataConsent" -> "createSuperuserAndFacility"
          [] p = "personalDataConsentForm" -> "finalizeSetup"]

\* What an answer on this page leaves in the context.
Answered == [ctx EXCEPT !.answers = @ \cup ({page} \cap Questions), !.blank = @ \ {page}]

\* Fault: the question about the passwords is skipped for an informal facility.
AnswerSkips ==
    /\ page \in DOMAIN Following
    /\ \E next \in {Following[page]} \cup
                   (IF page = "createLearnerAccount" THEN {"personalDataConsent"} ELSE {}) :
            Go(next, Answered)
    /\ Quiet

Answer ==
    /\ page \in DOMAIN Following
    /\ Go(Following[page], Answered)
    /\ Quiet

ChooseDevice(device) ==
    /\ page = "fullOrLearnOnlyDevice"
    /\ Go(IF device = "lod" THEN "selectLodSetupType" ELSE "fullDeviceNewOrImportFacility",
          [ctx EXCEPT !.device = device])
    /\ Quiet

ChooseFacility(choice) ==
    /\ page = "fullDeviceNewOrImportFacility"
    /\ Go(IF choice = "new" THEN "setFacilityPermissions" ELSE "selectFacilityForm",
          [ctx EXCEPT !.facilityNewOrImport = choice])
    /\ Quiet

\* The form puts the account into the store and sends it to the machine. Its
\* page after an import asks the server to make the account a superuser and
\* goes on without waiting for the answer.
NameSuperuser(u) ==
    /\ \/ page \in {"createOnMyOwnAccount", "createSuperuserAndFacility"} /\ u = Own
       \/ page = "selectSuperAdminAccountForm" /\ u \in (here \cap Users) \cup {Own}
    /\ typed' = u
    /\ Go(IF page = "selectSuperAdminAccountForm" THEN "personalDataConsentForm"
          ELSE "finalizeSetup", [ctx EXCEPT !.superuser = u, !.blank = @ \ {page}])
    /\ UNCHANGED <<osUser, residue, shared, clears, coreError, server, detours>>

\* Where the back button of a page leads.
Previous ==
    [p \in Questions \cup {"defaultLanguage", "createOnMyOwnAccount", "deviceName",
        "fullOrLearnOnlyDevice", "fullDeviceNewOrImportFacility", "personalDataConsent",
        "createSuperuserAndFacility", "selectFacilityForm", "importAuthentication",
        "personalDataConsentForm", "selectLodSetupType", "selectLodFacility",
        "lodImportUserAuth", "lodImportAsAdmin", "lodJoinFacility"} |->
        CASE p \in {"defaultLanguage", "deviceName"} -> "howAreYouUsingKolibri"
          [] p = "createOnMyOwnAccount" -> "defaultLanguage"
          [] p = "fullOrLearnOnlyDevice" -> "deviceName"
          [] p \in {"fullDeviceNewOrImportFacility", "selectLodSetupType"} ->
                 "fullOrLearnOnlyDevice"
          [] p \in {"setFacilityPermissions", "selectFacilityForm"} ->
                 "fullDeviceNewOrImportFacility"
          [] p = "guestAccess" -> "setFacilityPermissions"
          [] p = "createLearnerAccount" -> "guestAccess"
          [] p = "requirePassword" -> "createLearnerAccount"
          [] p = "personalDataConsent" -> "requirePassword"
          [] p = "createSuperuserAndFacility" -> "personalDataConsent"
          [] p = "importAuthentication" ->
                 IF Cardinality(Facilities) = 1 /\ ctx.selectedFacility # None
                 THEN "fullDeviceNewOrImportFacility"
                 ELSE "selectFacilityForm"
          [] p = "personalDataConsentForm" -> "selectSuperAdminAccountForm"
          [] p \in {"selectLodFacility", "lodImportUserAuth", "lodJoinFacility"} ->
                 "selectLodSetupType"
          [] p = "lodImportAsAdmin" ->
                 IF importing = {} THEN "lodImportUserAuth" ELSE "lodLoading"]

\* What BACK does to the context. Only the way out of the import of a facility
\* forgets the facility that was chosen.
Reverted ==
    IF page \in {"selectFacilityForm", "importAuthentication"}
       /\ Previous[page] = "fullDeviceNewOrImportFacility"
    THEN [ctx EXCEPT !.facilityNewOrImport = None, !.selectedFacility = None]
    ELSE IF page \in Questions \ {"setFacilityPermissions"} THEN Answered ELSE ctx

Back ==
    /\ page \in DOMAIN Previous
    /\ page = "lodImportUserAuth" => ctx.importedUsers = {}
    /\ Detour
    /\ Go(Previous[page], Reverted)
    /\ UNCHANGED <<osUser, residue, shared, typed, clears, coreError, server>>

-----------------------------------------------------------------------------
(* Imports.                                                                *)

SelectFacility(f) ==
    /\ page \in {"selectFacilityForm", "selectLodFacility"}
    /\ Go(IF page = "selectFacilityForm" THEN "importAuthentication"
          ELSE IF ctx.lodImportOrJoin = "join" THEN "lodJoinFacility"
          ELSE "lodImportUserAuth",
          [ctx EXCEPT !.selectedFacility = f])
    /\ Quiet

ChooseLodType(type) ==
    /\ page = "selectLodSetupType"
    /\ Go("selectLodFacility", [ctx EXCEPT !.lodImportOrJoin = type])
    /\ Quiet

\* Which of the free requests is taken does not matter.
Unused(r) == tasks[r].state = "none" /\ tasks[r].answer = "none" /\ r \notin importing
Fresh == CHOOSE r \in Requests : Unused(r)

\* The page sends a startTask request. The pages that import need the facility.
Send(t) ==
    /\ ctx.selectedFacility # None
    /\ \E r \in Requests : Unused(r)
    /\ tasks' = [tasks EXCEPT ![Fresh] =
                    [state |-> "none", of |-> t, facility |-> ctx.selectedFacility,
                     from |-> page, answer |-> "awaited"]]
    /\ UNCHANGED <<osUser, page, residue, shared, shown, polling, following, post, clears,
                   coreError, here, provisioned, detours>>

\* ImportAuthentication, ImportIndividualUserForm with the name of a learner: the
\* buttons of the page stay enabled.
Submit(t) ==
    /\ \/ page = "importAuthentication" /\ t = ctx.selectedFacility
       \/ page = "lodImportUserAuth" /\ t \in Users
    /\ Send(t)
    /\ UNCHANGED <<ctx, saved, typed, importing>>

WithFirst(u) ==
    IF ctx.firstImportedLodUser = None THEN [ctx EXCEPT !.firstImportedLodUser = u] ELSE ctx

\* setLodSuperAdmin of the machine.
WithSuperAdmin(c, u) == IF c.superuser = None THEN [c EXCEPT !.superuser = u] ELSE c

\* The form of ImportIndividualUserForm without a name, once a user was imported.
FinishImports ==
    /\ page = "lodImportUserAuth" /\ ctx.importedUsers # {} /\ ctx.selectedFacility # None
    /\ Go("finalizeSetup", ctx)
    /\ Quiet

UseAdmin ==
    /\ page = "lodImportUserAuth" /\ ctx.selectedFacility # None
    /\ Go("lodImportAsAdmin", ctx)
    /\ Quiet

\* ImportMultipleUsers.startImport: the learner is being imported, and the first
\* one is named, before the request.
ImportAsAdmin(u) ==
    /\ page = "lodImportAsAdmin"
    /\ u \notin ctx.importedUsers \cup {tasks[r].of : r \in importing}
    /\ Send(u)
    /\ importing' = importing \cup {Fresh}
    /\ ctx' = WithFirst(u) /\ Save(page, ctx')
    /\ typed' = typed

\* LodJoinFacility: the account is created on the other device and imported. When
\* it cannot be created there is no second request.
Join(u, created) ==
    /\ page = "lodJoinFacility"
    /\ typed' = u
    /\ ctx' = [ctx EXCEPT !.superuser = u] /\ Save(page, ctx')
    /\ IF created THEN Send(u)
       ELSE UNCHANGED <<osUser, page, residue, shared, shown, polling, following, post, clears,
                        coreError, server, detours>>
    /\ importing' = importing

\* What is left of a request and its task.
Left(r, state, answer) ==
    IF state = "none" /\ answer = "none" /\ r \notin importing THEN NoTask
    ELSE [tasks[r] EXCEPT !.state = state, !.answer = answer,
                          !.from = IF answer = "none" THEN None ELSE @]

\* The server validates the request, which asks the other device, and enqueues
\* the task, which it only does before the device is provisioned. The answer may
\* be lost, or nobody waits for it any more.
ServeStart(r, started, told) ==
    /\ tasks[r].answer = "awaited"
    /\ (told => started) /\ (started => provisioned = None)
    /\ MayFail(~told)
    /\ tasks' = [tasks EXCEPT ![r] =
                    Left(r, IF started THEN "running" ELSE "none",
                         IF tasks[r].from = None THEN "none" ELSE IF told THEN "yes" ELSE "no")]
    /\ UNCHANGED <<osUser, wizard, views, clears, coreError, here, provisioned>>

\* The pages that take a CONTINUE that was not meant for them, and the next one.
\* "nowhere" is a state between two pages whose conditions are all false.
Onward ==
    [p \in Pages \ {"personalDataConsentForm", "lodLoading", "lodImportAsAdmin",
                    "lodJoinLoading", "finalizeSetup", "gone", "nowhere"} |->
        CASE p \in DOMAIN Following -> Following[p]
          [] p \in {"createOnMyOwnAccount", "createSuperuserAndFacility"} -> "finalizeSetup"
          [] p = "selectFacilityForm" -> "importAuthentication"
          [] p = "importAuthentication" -> "loadingTaskPage"
          [] p = "loadingTaskPage" -> "selectSuperAdminAccountForm"
          [] p = "selectSuperAdminAccountForm" -> "personalDataConsentForm"
          [] p = "selectLodSetupType" -> "selectLodFacility"
          [] p = "selectLodFacility" ->
                 IF ctx.lodImportOrJoin = "join" THEN "lodJoinFacility" ELSE "lodImportUserAuth"
          [] p = "lodImportUserAuth" -> "lodLoading"
          [] p = "lodJoinFacility" -> "lodJoinLoading"
          [] OTHER -> "nowhere"]

\* The action of the machine reads a field of the value, and there is none.
Raises(c, u) ==
    /\ u = None
    /\ \/ page \in {"fullDeviceNewOrImportFacility", "setFacilityPermissions",
                    "selectFacilityForm", "selectLodSetupType", "selectLodFacility"}
       \/ page = "lodImportUserAuth" /\ c.superuser = None

\* The context after a CONTINUE with the task of user u, or without a value: the
\* field of the page is undefined or not what it should be.
Assigned(c, u) ==
    CASE page = "howAreYouUsingKolibri" -> [c EXCEPT !.use = None]
      [] page = "fullOrLearnOnlyDevice" -> [c EXCEPT !.device = None]
      [] page = "fullDeviceNewOrImportFacility" -> [c EXCEPT !.facilityNewOrImport = None]
      [] page \in Questions -> [c EXCEPT !.answers = @ \ {page}, !.blank = @ \cup {page}]
      [] page = "createSuperuserAndFacility" ->
             [c EXCEPT !.superuser = u, !.blank = @ \cup {page}]
      [] page \in {"createOnMyOwnAccount", "selectSuperAdminAccountForm"} ->
             [c EXCEPT !.superuser = u]
      [] page \in {"selectFacilityForm", "selectLodFacility"} ->
             [c EXCEPT !.selectedFacility = None]
      [] page = "selectLodSetupType" -> [c EXCEPT !.lodImportOrJoin = None]
      [] page = "lodImportUserAuth" -> WithSuperAdmin(c, u)
      [] OTHER -> c

\* CONTINUE comes to whatever page is shown by now.
Continue(c, u) ==
    IF page \in DOMAIN Onward /\ ~Raises(c, u) THEN Go(Onward[page], Assigned(c, u))
    ELSE /\ ctx' = c /\ saved' = IF c = ctx THEN saved ELSE [page |-> page, ctx |-> c]
         /\ UNCHANGED <<page, views>>

\* The promise of startTask is fulfilled. LodJoinFacility catches also what the
\* machine raises.
Started(r) ==
    /\ tasks[r].answer = "yes"
    /\ tasks' = [tasks EXCEPT ![r] = Left(r, tasks[r].state, "none")]
    /\ LET u == tasks[r].of
           c == IF tasks[r].from = "lodImportUserAuth" /\ page \in LodPages
                THEN WithFirst(u) ELSE ctx
       IN  CASE tasks[r].from = "lodImportUserAuth" ->
                    Continue(c, IF ctx.importedUsers = {} THEN u ELSE None)
             [] tasks[r].from \in {"importAuthentication", "lodJoinFacility"} ->
                    Continue(ctx, None)
             [] OTHER -> UNCHANGED <<page, ctx, saved, views>>
    /\ coreError' = \/ coreError /\ page' # "finalizeSetup"
                    \/ tasks[r].from = "lodJoinFacility" /\ Raises(ctx, None)
    /\ UNCHANGED <<osUser, residue, shared, typed, clears, here, provisioned, detours>>

\* It is rejected.
NotStarted(r) ==
    /\ tasks[r].answer = "no"
    /\ importing' = IF r \in importing THEN {q \in importing : tasks[q].of # tasks[r].of}
                    ELSE importing
    /\ tasks' = [tasks EXCEPT ![r] = Left(r, tasks[r].state, "none")]
    /\ coreError' = (coreError \/ tasks[r].from = "lodJoinFacility")
    /\ UNCHANGED <<osUser, wizard, shown, polling, following, post, clears, here, provisioned,
                   detours>>

\* addImportedUser for the users in S: the first push goes to the array that
\* the context holds, which may be the one of initialContext.
Add(S, first, c) ==
    /\ ctx' = [c EXCEPT !.importedUsers = @ \cup S]
    /\ residue' = IF shared THEN residue \cup {first} ELSE residue
    /\ shared' = FALSE

Finished(r) == tasks[r].state \in {"completed", "failed"}

\* The queue that LoadingTaskPage polls and clears.
Queue == IF ctx.device = "lod" THEN Users ELSE Facilities
Listed == {r \in Requests : tasks[r].state # "none" /\ tasks[r].of \in Queue}

\* clearall deletes the tasks of a queue that are over.
Cleared(queue) ==
    [r \in Requests |-> IF Finished(r) /\ tasks[r].of \in queue
                        THEN Left(r, "none", tasks[r].answer) ELSE tasks[r]]

\* handleClickContinue
AfterImport == IF ctx.device = "lod" THEN "finalizeSetup" ELSE "selectSuperAdminAccountForm"

\* Fault: every task that is listed counts as an imported user.
ListedUsers == Users \cap {tasks[r].of : r \in Listed}

CompletedUsers == Users \cap {tasks[r].of : r \in {q \in Requests : tasks[q].state = "completed"}}

runningTasks == {r \in Listed : ~Finished(r)}

\* Fault: polling stops as soon as one task is over.
KeepUntilOne == runningTasks = Listed

\* "New timeout to poll again if we should"
KeepPolling == runningTasks # {}

ShownStatus ==
    CASE runningTasks # {} -> "running"
      [] runningTasks = {} /\ (\E r \in Listed : tasks[r].state = "completed") -> "completed"
      [] OTHER -> "failed"

ClearRequests == [queue : {Users, Facilities}, over : BOOLEAN]

\* LoadingTaskPage.handleClickContinue: nobody waits for the tasks to be cleared.
MoveAlong ==
    /\ clears' = clears \cup {[queue |-> Queue, over |-> FALSE]}
    /\ Go(AfterImport, ctx)

\* LoadingTaskPage.pollTask: without any task the page moves along.
LoadingPoll ==
    /\ page \in LoadingPages /\ polling = "on"
    /\ IF Listed = {}
       THEN /\ MoveAlong
            /\ UNCHANGED <<residue, shared>>
       ELSE /\ shown' = ShownStatus
            /\ polling' = IF KeepPolling THEN "on" ELSE "off"
            /\ IF page \in LodPages /\ CompletedUsers # {}
               THEN (\E first \in CompletedUsers : Add(CompletedUsers, first, ctx))
                    /\ Save(page, ctx')
               ELSE UNCHANGED <<ctx, residue, shared, saved>>
            /\ UNCHANGED <<page, following, importing, post, clears>>
    /\ coreError' = (coreError /\ page' # "finalizeSetup")
    /\ UNCHANGED <<osUser, typed, server, detours>>

\* A poll that fails: nothing asks for another one.
LoadingPollFails ==
    /\ page \in LoadingPages /\ polling = "on"
    /\ MayFail(TRUE)
    /\ polling' = "lost"
    /\ UNCHANGED <<osUser, wizard, shown, following, importing, post, clears, coreError, server>>

\* ImportMultipleUsers.pollImportTask, which goes on after its page was left. The
\* machine takes the events only in the states that list them.
FollowImports ==
    /\ following
    /\ importing' = {r \in importing : tasks[r].of \notin CompletedUsers}
    /\ LET new == CompletedUsers \ ctx.importedUsers
       IN  IF new # {} /\ page \in LodPages
           THEN \E first \in new :
                  /\ Add(new, first,
                         IF ctx.importedUsers = {}
                            /\ page \in {"lodLoading", "lodImportAsAdmin", "lodJoinLoading"}
                         THEN WithSuperAdmin(ctx, first) ELSE ctx)
                  /\ Save(page, ctx')
           ELSE UNCHANGED <<ctx, residue, shared, saved>>
    /\ <<importing', ctx'>> # <<importing, ctx>>
    /\ UNCHANGED <<osUser, page, typed, shown, polling, following, post, clears, coreError,
                   server, detours>>

ContinueImport ==
    /\ page \in LoadingPages /\ shown = "completed"
    /\ MoveAlong
    /\ UNCHANGED <<osUser, residue, shared, typed, coreError, server, detours>>

ImportAnother ==
    /\ page \in {"lodLoading", "lodJoinLoading"} /\ shown = "completed"
    /\ ctx.lodImportOrJoin = "import"
    /\ Go("lodImportUserAuth", ctx)
    /\ Quiet

\* retryImport restarts the task; the page goes on showing the one that failed.
RetryImport(r) ==
    /\ page \in LoadingPages /\ shown = "failed"
    /\ r \in Listed /\ tasks[r].state = "failed"
    /\ tasks' = [tasks EXCEPT ![r].state = "running"]
    /\ UNCHANGED <<osUser, wizard, views, clears, coreError, here, provisioned, detours>>

\* The task is not there any more, or the request fails.
RetryRefused ==
    /\ page \in LoadingPages /\ shown = "failed"
    /\ MayFail(\E r \in Listed : tasks[r].state = "failed")
    /\ coreError' = TRUE
    /\ UNCHANGED <<osUser, wizard, views, clears, server>>

\* LoadingTaskPage.startOver asks to clear the tasks and waits for it.
AskStartOver ==
    /\ page \in LoadingPages /\ shown = "failed"
    /\ Detour
    /\ clears' = clears \cup {[queue |-> Queue, over |-> TRUE]}
    /\ polling' = "off"
    /\ UNCHANGED <<osUser, wizard, shown, following, importing, post, coreError, server>>

\* resetContext: the array of initialContext holds what was pushed to it.
Reset == [initialContext EXCEPT !.importedUsers = residue]

StartOver ==
    /\ Go("howAreYouUsingKolibri", Reset)
    /\ shared' = TRUE
    /\ UNCHANGED <<osUser, residue, typed, here, provisioned>>

\* The button that every page shows instead of its own when there is an error.
ErrorStartOver ==
    /\ page # "gone"
    /\ coreError \/ post = "refused"
    /\ Detour
    /\ StartOver
    /\ coreError' = FALSE
    /\ UNCHANGED <<clears, tasks>>

\* The server clears a queue, or fails to; LoadingTaskPage.startOver, if its page
\* was not loaded again, sends START_OVER.
ServeClear(c, failed) ==
    /\ c \in clears /\ clears' = clears \ {c}
    /\ MayFail(failed)
    /\ tasks' = IF failed THEN tasks ELSE Cleared(c.queue)
    /\ IF c.over /\ ~failed /\ page # "gone" THEN StartOver
       ELSE UNCHANGED <<osUser, wizard, views, here, provisioned>>
    /\ UNCHANGED coreError

\* Another load of the page, which resumes the machine from the saved state.
\* Nobody hears the answers to the requests that are out.
Reload ==
    /\ page # "gone" /\ Detour
    /\ LET to == IF provisioned # None THEN [page |-> "gone", ctx |-> ctx]
                 ELSE IF saved = None
                      THEN [page |-> "howAreYouUsingKolibri", ctx |-> initialContext]
                      ELSE saved
       IN  /\ page' = to.page /\ ctx' = to.ctx
           /\ polling' = IF to.page \in LoadingPages THEN "on" ELSE "off"
           /\ shown' = "none"
           /\ following' = (to.page = "lodImportAsAdmin") /\ importing' = {}
           /\ post' = IF to.page = "finalizeSetup" THEN "asked" ELSE "idle"
    /\ coreError' = FALSE
    /\ clears' = {[c EXCEPT !.over = FALSE] : c \in clears}
    /\ tasks' = [r \in Requests |->
                    [tasks[r] EXCEPT !.from = None,
                                     !.answer = IF @ = "awaited" THEN @ ELSE "none"]]
    /\ residue' = {} /\ shared' = (saved = None) /\ typed' = None
    /\ UNCHANGED <<osUser, saved, here, provisioned>>

-----------------------------------------------------------------------------
(* The server.                                                             *)

\* A task ends. What was imported stays on the device, an import of an account
\* brings its facility.
EndTask(r, failed) ==
    /\ tasks[r].state = "running"
    /\ MayFail(failed)
    /\ tasks' = [tasks EXCEPT ![r].state = IF failed THEN "failed" ELSE "completed"]
    /\ here' = IF failed THEN here
               ELSE here \cup {tasks[r].of, tasks[r].facility}
                         \cup (IF tasks[r].of \in Facilities THEN Users ELSE {})
    /\ UNCHANGED <<osUser, wizard, views, clears, coreError, provisioned>>

-----------------------------------------------------------------------------
(* Provisioning.                                                           *)

OnMyOwn == ctx.use = "personal"

\* deviceProvisioningData. The first account that an import was asked for comes
\* before the one that was named.
Payload ==
    [facility |-> ctx.selectedFacility,
     superuser |-> CASE OnMyOwn /\ osUser -> None
                     [] ~(OnMyOwn /\ osUser) /\ ctx.firstImportedLodUser # None ->
                            ctx.firstImportedLodUser
                     [] ~(OnMyOwn /\ osUser) /\ ctx.firstImportedLodUser = None
                        /\ ctx.superuser # None -> ctx.superuser
                     [] OTHER -> typed,
     preset |-> OnMyOwn \/ "setFacilityPermissions" \in ctx.answers,
     soud |-> ctx.device = "lod"]

\* What the serializer accepts: a facility that is on the device, or the data
\* of a new one, and a superuser, who is created when the name is not found.
Acceptable(p) ==
    /\ provisioned = None
    /\ IF p.facility # None THEN p.facility \in here ELSE p.preset
    /\ p.superuser # None \/ osUser

Provision ==
    /\ post = "asked"
    /\ IF Acceptable(Payload)
       THEN provisioned' = Payload /\ post' = "done"
       ELSE provisioned' = provisioned /\ post' = "refused"
    /\ UNCHANGED <<osUser, wizard, shown, polling, following, importing, clears, coreError,
                   tasks, here, detours>>

\* The answer is lost, or the request is.
ProvisionLost ==
    /\ post \in {"asked", "done"} /\ page = "finalizeSetup"
    /\ MayFail(TRUE)
    /\ post' = "refused"
    /\ UNCHANGED <<osUser, wizard, shown, polling, following, importing, clears, coreError,
                   server>>

RetryProvision ==
    /\ post = "refused"
    /\ post' = "asked"
    /\ UNCHANGED <<osUser, wizard, shown, polling, following, importing, clears, coreError,
                   server, detours>>

\* The saved state is removed and the browser leaves the wizard.
Leave ==
    /\ post = "done"
    /\ page' = "gone" /\ saved' = None
    /\ following' = FALSE /\ post' = "idle"
    /\ UNCHANGED <<osUser, ctx, residue, shared, typed, shown, polling, importing, clears,
                   coreError, server, detours>>

-----------------------------------------------------------------------------
Ask ==
    \/ \E use \in {"personal", "group"} : ChooseUse(use)
    \/ Answer
    \/ \E device \in {"full", "lod"} : ChooseDevice(device)
    \/ \E choice \in {"new", "import"} : ChooseFacility(choice)
    \/ \E u \in Names : NameSuperuser(u)
    \/ Back

Import ==
    \/ \E f \in Facilities : SelectFacility(f)
    \/ \E type \in {"import", "join"} : ChooseLodType(type)
    \/ \E t \in Imports : Submit(t)
    \/ \E u \in Users : ImportAsAdmin(u) \/ \E created \in BOOLEAN : Join(u, created)
    \/ FinishImports \/ UseAdmin
    \/ ContinueImport \/ ImportAnother \/ AskStartOver
    \/ \E r \in Requests : RetryImport(r)
    \/ RetryRefused

Answers ==
    \E r \in Requests : \/ \E started, told \in BOOLEAN : ServeStart(r, started, told)
                        \/ Started(r) \/ NotStarted(r)

Polls == LoadingPoll \/ LoadingPollFails \/ FollowImports

Finalize == Provision \/ ProvisionLost \/ RetryProvision \/ Leave

Next ==
    \/ ~coreError /\ (Ask \/ Import)
    \/ Answers \/ Polls \/ Finalize
    \/ ErrorStartOver \/ Reload
    \/ \E c \in ClearRequests, failed \in BOOLEAN : ServeClear(c, failed)
    \/ \E r \in Requests, failed \in BOOLEAN : EndTask(r, failed)

Spec == Init /\ [][Next]_vars

\* The timers of the polls fire and requests are answered, tasks end, the
\* browser goes where it is sent. Nothing is assumed of the user.
Fairness ==
    /\ WF_vars(LoadingPoll) /\ WF_vars(Provision) /\ WF_vars(Leave)
    /\ \A r \in Requests : WF_vars(\E failed \in BOOLEAN : EndTask(r, failed))

FairSpec == Spec /\ Fairness

-----------------------------------------------------------------------------
(* Properties.                                                             *)

Tasks == [state : {"none", "running", "completed", "failed"}, of : Imports \cup {None},
          facility : Facilities \cup {None},
          from : {"importAuthentication", "lodImportUserAuth", "lodImportAsAdmin",
                  "lodJoinFacility", None},
          answer : {"none", "awaited", "yes", "no"}]
Payloads == [facility : Facilities \cup {None}, superuser : Names \cup {None},
             preset : BOOLEAN, soud : BOOLEAN]

\* Every variable has its type.
TypeOK ==
    /\ osUser \in BOOLEAN /\ page \in Pages /\ ctx \in Contexts
    /\ saved = None \/ saved \in [page : Pages, ctx : Contexts]
    /\ residue \subseteq Users /\ shared \in BOOLEAN /\ typed \in Names \cup {None}
    /\ shown \in {"none", "running", "completed", "failed"}
    /\ polling \in {"on", "off", "lost"}
    /\ {following, coreError} \subseteq BOOLEAN /\ clears \subseteq ClearRequests
    /\ importing \subseteq Requests /\ post \in {"idle", "asked", "done", "refused"}
    /\ tasks \in [Requests -> Tasks] /\ here \subseteq Imports
    /\ provisioned = None \/ provisioned \in Payloads
    /\ detours \in 0..MaxDetours

\* Every account that the wizard lists as imported is on the device: whichever
\* of the pollers listed it, also the ones of pages that were left, and also
\* when it came back with the context after a reload or a START_OVER.
ImportedAreHere == ctx.importedUsers \cup residue \subseteq here

\* However often the user went back, and whatever page the answers to requests
\* for imports come to, a new facility is set up only when all of its questions
\* and its superuser were asked for: each field was set, by the user or by an event
\* that took the wizard past the question.
NewFacilityIsAnswered ==
    page = "finalizeSetup" /\ ctx.use = "group" /\ ctx.device = "full"
        /\ ctx.facilityNewOrImport = "new" =>
            /\ Questions \subseteq ctx.answers \cup ctx.blank
            /\ ctx.superuser = Own \/ "createSuperuserAndFacility" \in ctx.blank

\* The end of an import is shown, unless a poll of it failed or the page was
\* left.
ImportIsShown ==
    \A p \in LoadingPages :
        page = p /\ polling = "on" ~>
            page # p \/ polling = "lost" \/ shown \in {"completed", "failed"}

-----------------------------------------------------------------------------
(* What comments of the code say and the code does not do.                 *)

\* "Here we see if we've set a firstImportedLodUser -- if they exist, they must
\* be the superuser as they were the first imported user."
FirstWasImported ==
    post = "asked" /\ ctx.firstImportedLodUser # None => ctx.firstImportedLodUser \in here

\* "Assigns the machine to have the initial context again"
StartOverForgets == [][~shared /\ shared' => ctx' = initialContext]_vars

\* "Imported a facility already otherwise we wouldn't have an ID yet"
FacilityWasImported ==
    post = "asked" /\ ctx.selectedFacility # None => ctx.selectedFacility \in here

\* "If we have no tasks (ie, they've been cleared and the page loaded here) we can
\* just move along to the next step": past the loading page of a learn-only device
\* an account was imported.
ImportedFirst ==
    page = "finalizeSetup" /\ ctx.use = "group" /\ ctx.device = "lod" => ctx.importedUsers # {}

\* "The user answers the question 'Enable passwords?'": the questions about a new
\* facility are answered by the user.
AnsweredByTheUser ==
    page = "finalizeSetup" /\ ctx.use = "group" /\ ctx.device = "full"
        /\ ctx.facilityNewOrImport = "new" => Questions \subseteq ctx.answers
=============================================================================
