# Verification of the call-intelligence backend

This directory specifies the parts of the system whose correctness depends on
order, concurrency, failure, time or arithmetic that is easy to get wrong, in
TLA+. TLC checks small instances; TLAPS proves theorems for every instance.
`PROJECT.json` lists the components, the runs, the mutants that show each
property can fail, the source lines behind each definition, the hazards and the
theorems. Source paths below are relative to `src/backend/app/`, those of the
web app to `src/frontend/src/app/`.

## 1. Inventory

The backend is a FastAPI program. PostgreSQL holds what must survive, Redis
holds short-lived state shared by API instances (media-stream marks, live
analysis, locks, call mapping). Several instances may run behind a load
balancer, one worker process each, many threads per process. Outside parties:
the telephony provider (webhooks and media socket), the LLM and ASR providers,
the CRM, the SMS gateway, and the web app's users.

| Component | State | Operations | What makes it correct | What is hard |
|---|---|---|---|---|
| Call record (`domain/conversation.py`, `services/conversation_service.py`) | the call's row: status, end time, holds, executive, lines | create, add/continue line, replace transcript, annotate, hold, resume, complete, assign | writes do not overwrite each other; completion once and final; transcript frozen afterwards | threads and instances racing on one row |
| Call setup (`services/telephony_call_service.py`, `services/call_routing_service.py`, `api/v1/telephony.py`) | provider call id to call id | answer webhook, dial callback | every webhook of a phone call reaches the call its audio goes to | repeated and failed webhooks |
| Media stream (`api/v1/telephony_ws.py`, `services/live_chunk_processing_service.py`) | buffer, chunk numbers, progress | start, media, stop, drain, hold | every chunk in the call once, in order | restarts, reconnects, holds |
| Speech to text (`services/telephony_audio_buffer.py`, `services/audio_processing_pipeline.py`, `services/language_lock.py`) | audio buffer, open line, language of a track | cut, transcribe, join, lock | every word once, sentences whole | cuts within words, failures |
| Speaker roles (`services/speaker_session_registry.py`, `ai/speaker`) | voices, evidence, roles | match, learn, save, restore | one speaker's lines are not given to the other | reconnect to another instance |
| End of a call (`telephony_call_service.py`, `services/stale_call_service.py`) | open-stream marks, drain events | status webhook, drain, sweep | completed once, after the final audio | webhook against socket; a whole row saved by two instances |
| Live analysis scheduling (`services/live_analysis_scheduler.py`) | running and follow-up flags | request, run, discard | one analysis at a time, all speech analysed | lost wake-up |
| Live analysis (`services/call_workflow_service.py`, `services/live_analysis_store.py`, `ai/question`, `ai/live_analysis`) | snapshot and revision in Redis | analyse, refresh, suggest, forget | what was found is not lost; suggestions are about the call | two analyses, late answers |
| What lines say (`services/conversation_analysis_service.py`, `ai/complaint`, `ai/sentiment`, `ai/llm`) | tags and tones of lines | ask, join, store | findings only on words that were said | lines that grow while being judged |
| Complaints (`domain/complaint_lifecycle.py`, `services/complaint_lifecycle_service.py`) | a record per complaint | sync, settle, close call, attach customer | open complaints of an ended call are flagged; what a person settled stands | late analyses |
| Escalation (`services/escalation_service.py`, `ai/escalation`) | a record per call | assess, acknowledge, resolve | the level never falls | assessment against decision |
| Customer of a call (`services/call_customer_service.py`, `crm/json_file_directory.py`) | link of the call | number, identify, choose | the customer is the number's | number changes during a lookup; file edited |
| Alerts, live board (`services/call_alerts.py`, `services/live_calls.py`) | alerts, cached list | refresh, sweep, list | alerts follow what is true | sweep against refresh, stale cache |
| Post-call processing and repair (`services/post_call_processor.py`, `services/post_call_repair_service.py`) | summary, coverage, attempts | process, sweep, retry now | one summary, resting on the final analysis; each call processed or given up | crashes, two processors, rate limits |
| Recordings (`services/call_recording_store.py`, `services/post_call_retranscription.py`, `services/recording_archive.py`) | audio in memory, files, rows | record, revise, archive, sweep | nothing said is lost; what is kept plays; what expired goes | crash between file and row |
| Summary delivery (`services/customer_summary_delivery_*.py`) | delivery rows | claim, send, finish, retry, close | one sender; no second message after success | crash between claim and finish |
| Learning loop (`services/learning_*.py`, `services/improvement_*.py`, …) | observations, candidates, improvements | record, correct, refresh, review, apply, measure | a pattern is proposed once; an improvement is judged by what it guided | requests overlapping, steps failing |
| Emerging complaints, categories (`services/emerging_complaint_service.py`, `services/complaint_category_*.py`) | themes, catalog | discover, review, administer | decisions stand and show at once | a run storing beside a review |
| Users, locations (`services/user_management_service.py`, `services/location_service.py`) | users, telephone targets | create, change, deactivate | an admin remains; targets are distinct | two administrators at once |
| Price list, estimation (`services/price_list_service.py`, `estimation/`, `services/estimation_service.py`) | versions, a cache per instance | save, restore, price a call | instances come to agree; every part charged once | stale cache, mutual includes |
| Reports, lists (`services/reporting.py`, `services/performance.py`, `services/quality_audit.py`, `services/call_listing.py`) | none of their own | report, list | figures add up; SQL and memory agree | boundaries of days and ranges |
| Web app | what a page shows and has asked | poll, push, filter, edit, save | shows what it is asked, catches up | late answers, dropped sockets |
| Shared live state, background jobs, gateways, providers, wiring | locks with expiry; a thread per job | acquire, release; repeat | see section 6 | expiry while working |

### How the parts interact

```
provider --webhook--> API --> telephony_call_service --end_call--> call record
provider --media----> socket --> chunk worker --> speech to text --> call record
                 |        |                                        |
          recordings  stream marks (memory + Redis)    live analysis scheduler
                                                                   |
       complaints, escalation, questions, alerts <---  one analysis at a time
                                |                                  |
                       web app (poll, push) <--- snapshot, revision (Redis)
call completed --> post-call processor --> summary, close-out --> summary delivery
                   ^        |                                        ^
       repair sweep     retranscription, learning,           retry job (no lock)
       (Redis lock)     emerging complaints (Redis lock)
```

* `end_call` answers `completed_now` to the caller whose save ends the call; that
  answer starts the post-call processing. Webhook, sweep, and a person may all
  call it. On one instance a lock makes that caller the only one (section 5).
* The socket and the webhook of one call may be on different instances. They
  meet only in the Redis mark of the open stream and in the call's row.
* The post-call processor, its repair and the delivery meet only in the
  database and in Redis; each of them may be run by any instance.
* What several threads of one process share is guarded by a lock of that
  process. Only the repair sweep, the alert sweep and emerging-complaint
  discovery use a lock shared by the instances.
* The pages of the web app ask on timers and on events, and every answer may
  arrive after the page has moved on.

Hazards, each with its source line and the properties that watch it, are
listed in `PROJECT.json`.

## 2. Modules

| Module | Code | State | Actions |
|---|---|---|---|
| `Conversation` | `domain/conversation.py`, `services/conversation_service.py`, `…/conversation_repository.py` | none: operators over one call | `Refused`, `Saves`, `Effect` of each public operation |
| `CallLedger` | the promise of the same | the row | one atomic operation |
| `CallRecord` | `ConversationService` around the repository | row, lock of each instance, where each thread is | begin, acquire, refuse, change, save, failed save, crash |
| `CallSetup` | answer webhook, routing, dial callback | calls, mapping, where each webhook is | look up, create, map, answer, fail, pick up |
| `MediaStream` | `telephony_ws.py`, `live_chunk_processing_service.py` | buffer, chunk numbers and queue of each socket, progress of each instance | connect, start, media, stop, disconnect, drain, take / leave out / refuse / transcribe, hold, resume, complete, crash |
| `LiveSpeech` | `telephony_audio_buffer.py`, `audio_processing_pipeline.py`, `language_lock.py` | buffer and queue of a track, open line, lines, language | frame, cut, transcribe, join or start a line, fail, line by hand |
| `SpeakerRoles` | `speaker_session_registry.py`, `session_role_provider.py`, `voice_tracker.py` | voices, roles and evidence, stored and held | chunk, role from rules or model, save, reconnect, failed store |
| `CallEnd` | `telephony_call_service.py`, `api/v1/telephony.py`, `stale_call_service.py`, the row's lock in `conversation_service.py` | row's status and words, lock of each instance with the row it has read, drain events, Redis mark, webhooks, sweeps | marks; read and save of the row by a line, a webhook, a sweep, a person; a save that fails; webhook and sweep steps; expiry, outage, crash |
| `CoalescedWork` | the promise of the scheduler | calls due, calls being analysed | come due, start, finish |
| `LiveAnalysisScheduler` | `live_analysis_scheduler.py`, the storing side of `call_workflow_service.py` | `_running`, queue, timers, workers, interval | record, ask, submit, postpone, start, finish, resubmit, interval, timer |
| `LiveAnalysis` | the snapshot of a live analysis, questions, estimate | snapshot, what each run has seen and made | speak, refresh, ask, suggest, save, forget, discard |
| `LineTags` | judging lines | lines, what each analysis saw and got | grow, replace, ask together or task by task, join, annotate, fail |
| `Complaints` | coverage and complaint records | coverage, records, what each writer has read | analyse, save, sync, close out, settle, view |
| `Escalations` | `escalation_service.py`, `ai/escalation` | the record, its lock, what each client read | glance, assess, load, save, acknowledge, resolve |
| `CustomerLink` | `call_customer_service.py`, `json_file_directory.py` | link, the CRM's file, what was read of it | edit, check, read, ask, store, identify, choose, refuse a choice |
| `CallAlerts` | `call_alerts.py`, the sweep of `live_calls.py` | conditions, standing alerts, the sweep's lock | refresh, sweep, list, write, expiry |
| `LiveView` | `live.py`, `live_handler.py`, `useLiveCall.ts`, `liveCallSocket.ts` | calls and revisions, the page, requests, the socket | open, poll, push, answer, drop, reconnect, complete, leave |
| `LiveBoard` | `live_calls.py`, `LiveCallsPage.tsx` | calls, cached list, page, questions under way | read, cache, ask, show, filter, page |
| `PostCall` | `post_call_processor.py`, `post_call_repair_service.py` | database, live-state store, memory of each instance, each thread's locals | one per read or write others can see, sweep, retry by hand, time, crash |
| `Recordings` | recording, revision, archive, retention | audio, transcript, held recording, file, row | media, hand over, revise, archive, sweep, crash |
| `SummaryDelivery` | `customer_summary_delivery_service.py`, `…_records.py` | the rows of one call, what each run holds | resolve, examine, add, claim, send, finish, failed lookup, close, ageing, crash |
| `Learning` | feedback, evidence, candidates, reviews, improvements | what is stored at each stage, who refreshes | observe, correct, refresh, review, apply, fail |
| `ImprovementEffect` | `improvement_effectiveness_service.py`, `runtime_improvement_service.py` | evidence before and after, verdict | analyse, predict, correct, judge |
| `Themes` | `emerging_complaint_service.py` | theme, last run, locks, pending runs | complete, request, start, read, ask, look, store, review |
| `Categories` | `complaint_category_catalog.py`, `…_admin.py` | stored categories, the cache | look up, refresh, add, rename, retire, decide |
| `Staff` | `user_management_service.py`, `location_service.py` | users, locations, two locks | check and write each change |
| `PriceList` | `price_list_service.py` | versions, each instance's cache | save, restore, price, age |
| `PriceListSheet` | `PriceListPage.tsx`, `price_list_io.py` | versions, the page | edit, upload, read a sheet, save, discard, restore |
| `Estimates` | `estimation/`, `estimation_service.py` | rows, what was said, the estimate | build, detect, price |
| `Reports` | `reporting.py`, `performance.py`, `quality_audit.py`, `ReportsPage.tsx`, `PerformancePanel.tsx`, `api/v1/reports.py` | stored calls, page, questions under way; the figures are operators over stored calls | change of a call, filter, ask, answer |
| `CallBrowser` | `CallBrowser.tsx`, `call_listing.py`, `call_listing_query.py` | calls, address bar, page, timer | type, choose, fire, draw, serve, fail |

`xxxProofs` modules hold the theorems, `MCxxx` modules the instances TLC checks.
`CallCareProofs`, `TelephonyProofs` and `SpeechProofs` are about the compositions
`MCCallCare`, `MCTelephony` and `MCSpeech`, whose constants are as free there as a
component's: only a `.cfg` makes them small.

**Composition.** `CallRecord` extends `Conversation` and instantiates `CallLedger`
(the row as it is); `LiveAnalysisScheduler` instantiates `CoalescedWork` (due:
speech its latest run has not read; active: calls with a worker in an analysis).
Components that never write what another one
reads are not multiplied with each other: `MCTelephony`, `MCDelivery`,
`MCLiveScreens`, `MCCallCare`, `MCSpeech` and `MCBackOffice` instantiate several,
choose one at the start (`part`) and let the rest stand still. The states of such
a run are the sum of its parts' and not their product, every behaviour of it is
one of one part, and a property of it is the conjunction of what its parts
promise on one subject. Fairness is stated for each part while it is the one
chosen. Where a component needs two instances to show all its cases
(`LiveSpeech` with one and with three languages, `CallBrowser` for the screen and
for the two stores,
`Recordings` for the revision and for the archive) both are parts.

### Choices a reader should know

*Call record.* An operation is: take the process's lock, read, change a copy,
write the whole copy. Reading and deciding are one step, because only the
write of others can come between and the write has a step of its own. Lines are
a set: the table has no position and a load sorts by start time, then id.

*Scheduler.* A worker's read of the call is part of `Start`: speech stored
after the read and before the end is what the noted follow-up is for. Tasks and
timers carry no time; `cooling` says that a call's interval has not passed.

*Post-call.* A summary is identified by who drafted it and by where its tone
came from. Bookkeeping ages in two steps (`never`, `recent`, `long`) in place of
the give-up time. The last escalation check is folded into the close-out: both
are best effort and read nothing the other steps write. The lock expires
whenever its holder is dead or in an attempt (an attempt may outlast its lock);
a lock lost between attempts is a mishap and bounded. `GiveUpIsForgotten` is the
seven-day expiry of the bookkeeping.

*Delivery.* A row's key is of the customer or of a failed lookup; keys are
unique, so a call has at most two rows. Attempts past the maximum all mean the
same and are counted as the maximum. A failing database ends a run as a crash
does. A claimed row does not age while its run lives: what follows a claim is
bounded by timeouts of seconds, the age is minutes.

*Media stream and speech.* `MediaStream` has numbers, sockets and instances and
knows nothing of what is said; `LiveSpeech` has frames, words and lines of one
stream. What a cut or a flush does not send, too short, silent or unencodable, is
`unsent` and has no number. A loud frame is a word named by its place in the track; the recognizer
may hear a word a cut goes through in either chunk or in both. Which language a
chunk is heard in, and who speaks, are choices.

*End of a call.* Whoever changes the row takes the lock of its own instance, reads
the row and decides (one step), and saves the whole of it (another), so a save of
one instance may fall between the read and the save of another. From then on
`overlapped` holds: two instances have had the row in hand at once. Of the row only
its status and words are kept; `CallRecord` has the rest. The mark expires only when nothing is
streaming and nothing waits: it lives longer than the drain. `up = FALSE` means
that writes to Redis are lost and reads say "not open", which is how the code
treats its errors.

*Language models.* Every answer of a provider is a choice among the answers the
code tells apart: unusable, partial, about an unknown line or category, or
usable with any finding. In `LineTags` a judgement is the line it is about
(`<<id, words>>`), so a judgement of earlier words and one of later words differ.

*Coverage and records.* `Complaints` has the two together: the coverage, read and
saved whole under no lock, and the records, changed under the process's.
Whether a complaint's words were found is the analysis's choice.

*Screens.* A page is its state and the requests it has under way (`Slots` or a
set of requests); an answer carries what the server held when it was served. A
server call is one step where the handler makes one read, and several where
others can come between (`LiveView`: the call, then its analysis; `LiveBoard`: the
calls, then the stores beside them).

*Arithmetic.* `Estimates` counts in hundredths and rounds half up, as the code does;
`PriceListSheet` carries hundredths; `Reports` counts time in ticks, `Day` of
them a day, with a reader's offset. Rates are pairs `<<part, whole>>`.

## 3. Runs

Every property of a passing run has a mutant: a definition changed the way a
plausible bug would, with which the run fails. The mutants stand in the modules
beside what they change, each with a comment.

| Run | Instance | What it shows |
|---|---|---|
| `call_record` | one API instance, two threads, three operations of every kind, one crash | the locked read-change-write is atomic operations on the row (`ImplementsLedger`); no accepted line is dropped, the words of a completed call are frozen; every request ends, although a save may fail |
| `live_analysis` | two calls, two speakers, two workers, three utterances per call | no wake-up is lost, starts are spaced, all speech is read in the end; refinement of `CoalescedWork` with its fairness |
| `post_call` | sweep and retry by hand, two attempts, two tries of a limit, one mishap | the summary rests on a stored analysis and keeps the live tone; of overlapping runs, each with its own draft, only the stored one's summary is sent; a call with speech is summarised or given up |
| `summary_delivery` | two post-call runs, two retry jobs, three attempts, two crashes, CRM answers; beside it two runs and one job while the CRM fails or knows nobody | one sender at a time, sent stays sent; a delivery begun is concluded in both |
| `telephony` | `MediaStream`: two sockets one after the other, two frames and starts, a hold, a mishap. `CallEnd`: two sockets on two instances, a frame, a start, a webhook and a person on one instance and a sweep on the other, a mishap | chunks count on over stops and reconnects and land; until two instances have the row in hand at once the call is processed once, stays ended and gains no words; audio found waiting lands first; a hung-up call ends for good, also after such a save, and nobody waits for ever |
| `live_screens` | `CallAlerts`: one category, the analysis and a sweep. `LiveView`: one call, two requests, a change, a fault. `CustomerLink`: two numbers and customers, one request that sets the number and one that chooses a vehicle, two edits | alerts follow what is true; the screen catches up; the customer is the number's, unless a vehicle was chosen while the number changed, and the directory follows its file |
| `call_care` | `Complaints`: a category, the live and the final analysis and one of a line by hand, a manager, a view. `Escalations`: two assessors, a supervisor. `LiveView`: two calls to move between. `Staff`: two users, one number, two administrators. `CallSetup`: three webhooks, two failures. `ImprovementEffect`: two calls. `Reports`: two calls, two filters. `Estimates`: every list of up to three of eight rows. `PriceListSheet`: two rows, four sheets, seven steps | what is open is flagged, what was settled stands, calls reach their staff, a screen shows its own call, figures add up, prices are the list's |
| `speech` | `LiveSpeech`: six frames of one language with a failure and a line by hand; seven of three languages. `SpeakerRoles`: four chunks, two voices, a move or an outage. `LineTags`: two lines, a growth, a fault, an analysis by hand. `Recordings`: six frames, a crash, a failure. `Learning`: two calls, two corrections at once, a review. `Categories`: three names, three decisions, two readers | lines read as they were said, findings are on words that say them, recordings lose nothing, corrections and decisions count once and at once |
| `back_office` | `Themes`: two calls, a person, a supervisor. `PriceList`: two instances, two editors. `LiveBoard`: two calls, pages of one. `CallBrowser`: two calls for the screen, six changes of one for the stores. `Recordings`: three frames and the sweep. `LiveAnalysis`: two lines of either side, one of them by hand or a booking | lists hold what was chosen, decisions and tones stand, and each of the parts catches up with its source |
| `media_stream_hold` | one socket, one hold | **violated** `ChunksAreTaken`: after a hold the rest of the stream is refused |
| `post_call_message` | the request that ended the call and the sweep, one crash | **violated** `MessageFollows`: nothing takes up a delivery lost between storing and delivering |
| `recordings_reconnect` | a socket and the one that replaces it | **violated** `RevisionKeepsTheSpeech`: one socket's recording is taken for the whole call |

The type invariants of `CallRecord`, `LiveAnalysisScheduler`, `PostCall` and the
other invariants behind section 4's theorems are proved, for every instance, and
are not run again. A definition stated as a property and named by no run
(`OneCallPerPhoneCall`, `NamesAreDistinct`, `EachIsCharged`, `SaveIsUsedAtOnce`,
`LinesStayInOrder`, …) is one that the code does not keep, or keeps only under
conditions the instance does not have; section 5 says which.

*Bounds.* Two actors (threads, runs, jobs, sockets, requests) are what every
hazard here takes: one to read and one to change in between. Two instances
separate what is in memory from what is shared; `call_care` has one, because
the locks it relies on are of one process. Three operations let a completion
come between the read and the write of an operation and be repeated. Three
utterances are one read, one noted during the run, and one after it. Two starts
give a stream that stops and goes on, on the same socket or another; `CallEnd`,
which has no chunks, does with one. A request that only looks a customer up is
not an actor of its own (`Askers = {}`): a choice of vehicle begins with one, and is
that and no more when it is refused. The person who ends a call shares an
instance with the webhook and not with the sweep, so both a lock that is waited for
and one that is of no use occur. Six frames
are two of the longest chunks; seven let a track be locked to a language, leave
it and be heard in another. Four chunks give
roles time to be decided by two lines, moved, and used. One complaint is enough for
`Complaints`: complaints of different categories meet only in the lock and in the
coverage, saved whole, and its theorems are for any categories. Three rows and three
services let one include another that includes a third. One call of a report
is on the boundary of a day by the reader's offset and one lies before a range's
start (`Reports`). Two or three attempts
separate the first, a later and the last. One mishap (two in
`summary_delivery`) stands for a crash, lost lock or outage at every point;
repeated mishaps only repeat the recovery. The theorems do not have these
bounds. The bounds on events (`MaxFrames`, `MaxChanges`, `MaxClicks`, `MaxFailures`,
…) are guards of the actions they bound.

*Deadlock.* `PostCall` is checked for it (the sweep never stops). The others may
stop, and say so in their `.cfg`: all operations done, all speech analysed, all
deliveries ended, the call over, the person gone.

### Fairness

Weak fairness on the steps of threads, workers, requests and tasks: the code
starts them in pools and event loops that run what is ready, locks are released
in `with` blocks, and provider calls have time limits. Jobs (sweeps, retries) are
repeated by `background_jobs.py`, which survives an exception of the job, so their
steps are fair too; so are the timers of a page (`Poll`, `TimerFires`) while it is
open. Time passes: intervals, expiries, pauses, caches. Nobody has to speak,
call, press, choose, review or send a webhook, and crashes, failures and outages
are never fair. Some assumptions are stronger:

* `SummaryDelivery`: strong fairness on a lookup that does not fail: an outage of
  the CRM ends.
* `CallEnd`: strong fairness on the disconnect of a socket once the phone call is
  over: the provider closes its media connection even if no webhook arrives (it
  may be interrupted between a stop and its drain, hence strong).
* `CallEnd`: a person need not end the call, but a request that has read the row to
  end it goes on to save it, or fails.
* `Themes`: strong fairness on whoever needs a lock that others take and give
  back again and again, and on a completed call's request, which the repair of
  post-call processing repeats until it was made.
* `LiveBoard`: answers slower than the page's timer are failures, and few.
* `CustomerLink`: requests keep coming, so the directory's stamp is looked at.

## 4. Theorems

All are for every value of the constants the named assumptions allow; TLC evaluates
those on the instances above.

**`CallRecordProofs`.** `TypeCorrect` holds for any instances. The rest assumes
`SingleInstance` (all threads belong to one process). The argument: who is
inside the lock is the thread the lock names (`LockOwned`), so a thread about to
save is alone (lemma `Alone`) and its copy is the effect of its request on the
row as it *is* (`CopyCurrent`); the save is then a step of the ledger
(`RowIsALedger`). From lemmas about `Effect` (keeps completion, lines, words,
closes holds) follow `LinesAreKept`, `CompletesOnce`, `CompletionIsFinal`,
`TranscriptIsFrozen` and `HoldsAreClosed`. `SingleInstance` is needed: with a thread
on each of two instances TLC finds a dropped line (section 5).

**`LiveAnalysisSchedulerProofs`.** `OneAnalysisPerCall` is not inductive: two
queued tasks would soon be two analyses. The invariant counts a run as a token
that is in exactly one place (a thread about to submit, the queue, a timer, a
worker) exactly when the call has an entry in `_running`. From it follow
`AnalysesExclude`, `SpeechIsNoted`, `StartsKeepTheInterval` (only the run that
set the timer can skip the interval, and nothing else can start meanwhile) and
`WorkIsCoalesced`, the safety part of the refinement.

**`PostCallProofs`.** `TypeOK` is more than types: an attempt is given back by
subtracting one from a copy loaded earlier, so the count could leave its range.
`AttemptIsCounted` (a thread in an attempt has a copy with at least one attempt
and one about to count has room for it) makes it inductive. `DraftIsBacked` (a
draft past the analysis has speech and coverage behind it, and one being
delivered is the stored one) gives `SummariesRestOnAnalyses` and
`StoredIsWhatIsSent` (`OnlyTheStoredIsHanded`).

**`SummaryDeliveryProofs`.** Under `CrmAnswers` (`Lookups \subseteq {"known"}`):
`OnlyOneSends` and `ASentDeliveryStaysSent`. The invariant: there is one
delivery (`OneDelivery`); a run that sends holds it as it is recorded and queued
(`SenderHoldsIt`), is alone (`OneSender`), and it has not aged
(`AgedAreRecorded`); a copy to be claimed either still is what is recorded, and
then nobody sends, or has an older attempt number and its claim will fail
(`ClaimIsFresh`). Without `CrmAnswers` the second does not hold (section 5).

**`BackOfficeProofs`.** About `MCBackOffice`, for any calls, filters, complaints,
people and answers on one instance, from each part's own assumptions
(`PartsAssumption`), `OneInstance`, `CallsAreFew` (a board lists finitely many calls)
and `NoneIsNothing`. The fairness plays no part. One part moves (lemma
`EachMovesOrRests`), and each has an invariant of its own.
* `DecisionsStand` is `DecisionStands`. Of `Themes`: a run saves the whole theme it
  found, status included, so it must not have been reviewed since it was looked
  up. Who is between reading and writing has the lock (`HolderHasTheLock`), and
  what it read is still what is stored (`CopyIsCurrent`), with what each stage has
  at hand. The lock is held from `Look` to `Store` and from `OpenReview` to
  `SaveReview`, and not while the provider is asked, which the proof does not
  need. With two instances it fails. Of `LiveAnalysis`: a snapshot is replaced as
  a whole by what an analysis made before, so what it made has to keep the tone
  shown since (`AnalysisInv`): it does while one analysis is under way, which is
  what `mixed` records the end of. What the questions are does not matter to it, so the folds
  that choose them stay closed.
* `ListsStand` is `ListsAreTheChosen`. The board (`BoardInv`): every request carries
  the filters and place it was made with, the current one those of the page, and
  an answer is cut from the list the server had (`Fits`). That the rows of a list
  at some places, in order, are rows at those places and no others is a lemma
  about ranks in a finite set of numbers (`RanksAreTaken`). The screen
  (`ScreenInv`): the address has every choice but the text (`AsChosen`), and text
  not applied has a timer set to it, or a drawing to come that sets one
  (`TimerIsRight`). The stores (`StoreInv`): the history variable `settled` is the
  last of the times at which a call's complaints were resolved, however often
  they were opened again (`SettledAt`), which is what each store works out.

**`CallCareProofs`.** About `MCCallCare`, for any actors on the one instance
(`OneInstance`), from each part's own assumptions (`PartsAssumption`: among them
that the people, the views and the analyses that write complaints are different
clients) and `NoneIsNothing`. Only one part of the composition moves (lemma
`PartsStandStill`), so each has an invariant of its own.
* `LevelOnlyRises` is `EscalationOnlyRises` of `Escalations`. A record is folded from
  what was *read*, so the property is no property of the fold alone. The
  invariant (`EscalationInv`): who is between reading and writing has the lock, so
  with one lock there is one such client, and what it read is still what is
  stored. A lemma then says of the fold what the step is to do: level and
  signals no lower, acknowledgement kept, reopened exactly by a rise; it rests on
  lemmas about the highest member of a set of levels. With two instances the
  property fails.
* `OpenFlagged` is `OpenComplaintsAreFlagged`. It needs four things at once
  (`CloseOutInv`): whoever reads and writes a record has the lock and its copy is
  what is stored (`RecordsInv`, the argument of `LevelOnlyRises` with three kinds
  of writers); the final analysis begins after the end; what it tracks is all
  the coverage raises (`FoundIsCovered`), so each complaint has a record before the
  close-out lists them (`CoverageHasRecords`); and the close-out has yet to come
  to whatever is open and not flagged (`CloseOutIsUnderWay`). The second and third
  fail when an analysis saves its coverage over what another found, which the
  code does not prevent (section 5): the property excepts it (`missed`).
* `SettledStays` is `SettledStands`: `HandledIsLeftAlone` is a property of a step, but
  of one that writes a *copy*, so it needs `RecordsInv`; `EscalationOnlyRises` is
  `LevelOnlyRises`; `EffectIsFair` needs that evidence never comes from
  the future and that the first prediction of an output is known
  (`EffectInv`), so that a correction made later changes what counts since the
  improvement and never what counts before it.
* `StaffAreReached` is `CallsReachTheirStaff`, if a webhook is not sent again while
  one is at work (`~Overlapping`; section 5 says what happens otherwise). A request
  that has checked a user's row holds the users' lock, and what it checked still
  holds when it writes (`CheckStillHolds`): another administrator is left, and
  nobody else has the number. A webhook that starts a call does so before
  anything is mapped (`MappedOnce`).
* `AskedIsShown` is `ShowsWhatIsAsked`. For the live screen: the socket is the
  page's or nobody's (`SocketIsThePages`). For the reports page: what still counts
  among the requests asks for what the page is set to, every answer names the
  filters it was made for, and what stands on the page is on its way or there
  (`Awaited`). Its one assumption, `NoneIsNoAnswer`, says that no answer is the
  absence of one.
* `TypeCorrect` is `TypeOK`.

**`TelephonyProofs`.** About `MCTelephony`, for any sockets, webhooks, instances and
bounds, if a socket connects only when the last one is gone (`~Overlapping`: the
code counts the open streams of a call on one flag, section 5), from
`TelephonyAssumption` and `NoneIsNothing`.
* `FinalAudio` is `FinalAudioLands`. The invariant (`EndInv`): a socket with frames to
  settle is marked open on its instance and, while nothing failed, in Redis
  (`FramesAreMarked`); a webhook still owed frames polls only for another
  instance's, and one that has gone on to complete the call without a time-out is
  owed none, unless something failed (`OwedAreAwaited`).
* `EndIsTheEnd` is `TheEndIsTheEnd`: until two instances have the row in hand at once
  (`overlapped`), an ended call stays ended and gains no words, and processing was
  asked for once if it has ended and never if not. Every step leaves the row alone,
  reads it while the call is active, saves it from a lock, or gives it up (lemma
  `RowIsReadThenSaved`); and until that moment at most one lock is held, of a call
  still active (`RowIsCurrent`), so the row saved is the row as it is.
* `ProcessedOnceAlone` is the same without the exception where it cannot arise: with
  one instance (`Alone`) the call is processed exactly once, for any webhooks,
  sweeps, people, failed saves and crashes. With two it fails (section 5).
* `TypesHold` and `AudioKept` are `TelephonyTypeOK` and `AudioIsKept`. That a stream's
  numbers stay in bounds is no matter of types: they are bounded by the frames
  received because each chunk has a frame of its own and a socket's frames come
  in line (the chunk in work, the queue, the buffer) behind what the instance has
  counted (`FramesInLine`, `NumbersInBounds`). That chunks count on over stops and
  restarts is that the queue is a chain (`InTurn`): each chunk has the number after
  the one before it, the first the number the instance expects, and the buffer
  the one after the last. It holds until a chunk is left out (`mGap`): then the
  rest is refused, which the run `media_stream_hold` shows.

`PostCallProofs` also proves `TonesAreKept` (`ToneIsKept`): as long as no summary is
stored the tone is live or remembered on the one instance, whoever is past
reading it remembers it, and whoever has drafted drafted with it (`ToneInv`).

**`SpeechProofs`.** About `MCSpeech`, from `PartsAssumption` and `NoneIsNothing`. The
three properties are of data that grows (lists, words, frames) with several
steps between reading and writing, and hold for any length of it.
* `CorrectionsAreCounted` is `CorrectionsCount`, for any calls, values and requests.
  *Learning* (`LearningInv`): a refresh works from a list and from signals that are
  both old. The signals of any two refreshes are nested (`SignalsWereThere`); the
  list is late only in what was reviewed since and in the values it has done
  (`ListIsLate`); and a candidate still to review has the earliest of the
  corrections no reviewed one has (`OpenIsEarliest`), so that a refresh takes up all
  of an open candidate or none of it and two never share a correction. It
  assumes `LearningIsReviewed`: reviews come one at a time, and a single correction
  counts. With two reviews at once it is false (section 5).
  *Categories* (`CatalogInv`): what the cache holds as fresh is what is stored, but
  for a change whose author has still to announce it, and what a reader is about
  to keep is that too, but for a change announced since, which takes the
  reader's turn from it.
* `FindingsStand` is `FindingsAreGrounded`, for any requests, of a call of any length.
  The lines are numbered apart and what each line was found to say is of its
  own words (`TheCallIsLines`); what a request has read are lines of the call with
  the speakers they have still (`LinesAreRead`); what it was told is of what it has
  read (`AnswersAreKept`); and the final analysis, in spite of others, has the
  call as it is (`FinalIsOfTheCall`).
* `RecordingsStand` is `RecordingsAreWhole`, of audio of any length and any windows,
  for a call that comes in one stream (`MaxStreams = 1`; a second loses the first,
  which `recordings_reconnect` shows). The invariant (`RecordingInv`): what is recorded
  or held has every word heard live, the transcript keeps them, and a file is
  there for each row. It needs that the windows of a revision leave no word
  out, which is a fact about a recursive function (`AllIsInWindows`): of the places
  from which the cutting goes wrong there would be a last, but from there one
  window is cut as it should be, and from its end on so are the others. That a set of numbers has a least
  member (`SomeIsLeast`) comes from the library's theorem that finite sets are
  well-founded by inclusion.

**Only model-checked.** Liveness (`RequestsEnd`, `SpeechIsExamined`, `Settles`,
`DeliveriesConclude`, `PhoneCallsEnd`, `AlertsFollow`, `ScreenCatchesUp`,
`WorkCatchesUp`, the second half of `CustomerFollowsTheFile`) and the fairness of
`ImplementsCoalescedWork` are beyond the prover. So are `FiguresAreTheCalls` and
`PricesAreTheLists`: they say what sums over lists of any length come to, which
takes induction over the list. Not proved so far: delivery while the CRM fails;
`TypeOK` of `MCLiveScreens`; `TypeOK` and `LinesReadWell` of `MCSpeech`, whose instances
of `LiveSpeech` and `SpeakerRoles` have fixed sizes; `TypeOK` of `MCBackOffice`,
where the questions suggested are a fold over a list of any length.

## 5. Findings

The three violated runs are disagreements of the code with its own comments or
deployment guide; `PROJECT.json` quotes them. What the models also showed,
without a run of its own:

*Several instances.* The locks of the services are of one process.
* Two instances can end one call twice. `complete_conversation`
  (`conversation_service.py:152-161`) reads, checks and saves under a lock of its own
  process (line 35), so a webhook on one and a sweep or a person on the other both
  read an active call, both are answered `completed_now`, and both start post-call
  processing (`telephony_call_service.py:264`). Without the exception of `ProcessedOnce`
  TLC finds `processed = 2` in eight states. A line read before the end on one
  instance and saved after it on the other reopens the call, which is then ended,
  and processed, once more. The docstring of `handle_status_event`
  (`telephony_call_service.py:245-247`) says that duplicate or late callbacks never
  trigger post-call processing twice: it holds on one instance (`ProcessedOnceAlone`).
* A background discovery that meets the lock of another instance is dropped, not
  put off (`emerging_complaint_service.py:192-194`): the call that asked for it is in
  no run until another one asks. `WorkCatchesUp` is of one instance, where a
  request during a run is noted for a run after it.
* With two instances an operation on a call overwrites a line the other stored
  (`conversation_service.py:35`), a handled complaint and a raised escalation can
  be taken back, a discovery on one can overwrite a decision made on the other,
  and two administrators can pass each other's checks.
* The live sentiment remembered for a call is in memory, while its source is
  deleted: a retry on another instance or after a restart stores "neutral"
  (`post_call_processor.py:187`). `ToneIsKept` is stated for one instance without
  mishaps.
* A save of the price list is used at once only where no older read is about to
  be kept (`SaveIsUsedAtOnce`); it catches up when the cache ages.

*Calls.*
* Lines with equal start times come back ordered by id (`models.py:53`), so the
  line a speaker is continuing may not be the latest any more
  (`LinesStayInOrder`). A line entered by hand with a later start makes the
  stream's next line refused.
* Answer webhooks that overlap start two calls for one phone call
  (`telephony_call_service.py:96`; `OneCallPerPhoneCall`).
* With overlapping sockets the first to drain hides the other
  (`telephony_call_service.py:170`), and on one instance the counting of chunks
  fails too.
* The two numbers an executive and a centre have are checked under two locks, so
  a centre can be given a number that rings itself (`NoNumberRingsItself`).
* A choice of vehicle stores the customer its own lookup found, though the number
  was changed meanwhile (`call_customer_service.py:108-112`): unlike a lookup
  (`_store_snapshot`) it does not compare the number. `CustomerIsTheNumbers` excepts a
  call to which that has happened (`strayed`); without the exception TLC finds the
  customer of one number on a call from another.

*Analysis.*
* A line entered by hand while a live analysis runs: each saves the whole coverage
  it read (`call_workflow_service.py:539`), so one may take back a complaint that
  the other found and has yet to record; the final analysis then does not know
  of it, and a record made after the close-out is not flagged. The older of the
  two may restore an older estimate, tone and questions. If the call completes,
  what the hand's analysis found is stored after the final analysis, and
  complaints it finds then are not flagged.
* The fixed questions take the first few open complaints before those already
  handled are removed.
* A failed access to the store and a reconnect together can swap the roles of
  the speakers; two labels of one chunk are always taken for two speakers.

*After the call.*
* A close-out that fails is logged and never tried again once the summary is
  stored (`post_call_processor.py:280`).
* An overlapping retry resets the rate-limit note of the run beside it
  (`post_call_processor.py:105`), so that run's attempt is counted.
* A lookup that fails beside one that does not can leave two delivery records
  for one customer (`customer_summary_delivery_records.py:134`), and an old row is
  written back over a newer one (`customer_summary_delivery_records.py:204`): then
  neither `OneSender` nor `SentStaysSent` holds. A customer chosen by hand during
  a delivery has a key of their own.
* A crash between the file and the row leaves an archived file that no sweep
  removes; two sockets archiving leave the file of one and the row of the other.
  A recording taken for a revision that fails is gone, and the live transcript
  stays.

*Learning and administration.*
* Approving and putting to use are two saves (`learning_management_service.py:170`):
  reviews that overlap can leave two improvements of one candidate, or a
  rejected one in use (`ReviewsStand`), and, since each saves a copy it read before, a
  refresh between them can put one correction into two candidates (`ProposedOnce`
  fails with two reviews and three calls); signals read before the refresh's lock can
  shrink a pending candidate.
* If the evidence of a prediction could not be stored, a later correction counts
  as one of an output since the improvement.
* Two categories added at once may get one name (`NamesAreDistinct`).
* Services that include each other are both left out of the charge
  (`EachIsCharged`).
* A report's repeat callers are keyed by CRM id or by number, so one person may
  be two. A fractional start leaves a call out of the trend.

*Screens.*
* If every answer takes longer than the timer the live board never refreshes.
* The number of calls found and the page of them are two reads.
* "Completing" stays on when the executive leaves a call while it completes.
* An answer to a save of the price list that is lost makes Discard show the old
  list; what is edited during a save is dropped; of two supervisors the last
  save wins; a comma in the name of a service splits it on the way through the
  sheet.

## 6. Not modelled, and the plan

* *Shared live state* (`live_state_store.py`) and *background jobs* have no module
  of their own: a lock with an expiry is a variable of the module that uses it
  (`PostCall`, `CallAlerts`, `Themes`), a job is the fairness of its sweep.
* *AI providers, CRM and messaging gateways* are external: their answers, failures
  and delays are choices.
* *API layer and wiring* parse requests, check permissions and build the services.
  They keep nothing beyond a request.
* Of the components that are `partly` modelled, `PROJECT.json` says what is left
  out: mostly wording (prompts, notes, labels), audio as a signal, encryption,
  layout of exports, passwords and tickets, and the pages of the web app that
  show what others compute.

Next: theorems about `CallAlerts` and `CustomerLink`; an abstract specification of a
single-writer record that `Complaints`, `Escalations` and `Themes` implement on one
instance; what an applied improvement does to a prompt; the login throttle and
tickets.
