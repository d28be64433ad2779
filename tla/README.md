# TLA+ models of the bank speech AI platform

Specifications of the parts of `speechai` that keep state across steps, and of
the text and decision logic around them: the batch queue and its workers, the
segmentation of streamed audio, the streaming sessions and the engines they
share, the fine-tuning run with its checkpoints, the promotion of a fine-tuned
model, and what a transcript loses and shows on its way to a client. Each is
checked with TLC on small instances; most have proofs, for all values of their
constants, checked by TLAPS. Paths below are relative to the repository; `x.py`
without a directory is under `src/speechai/`.

## The system

| Component | State | Operations | Talks to |
|---|---|---|---|
| Job record, `pipeline/jobs.py` | status, timestamps, result, error, attempts | mark_started, mark_succeeded, mark_failed | mutated in place by `run_job` |
| Redis queue, `pipeline/queue.py` | keys `speech:job:{id}` with a TTL, list `speech:queue` | enqueue (MULTI), dequeue (BLPOP, then GET), get, update (SET), delete (DEL) | API process and worker processes |
| In-memory queue, `pipeline/queue.py` | dictionary of live Job objects, deque, one lock | the same, plus pruning by TTL and by max_results at enqueue | API event loop and a worker thread |
| Batch pipeline, `pipeline/batch.py` | engines made on demand, behind one lock | submit, get_job, delete_job, run_job, transcribe_sync, synthesize_sync | queue, engines, `data/results/<id>.wav` |
| Batch worker, `workers/batch_worker.py` | the job in hand | dequeue, run_job, interruption | queue, pipeline |
| REST routes, `api/routes.py` | none | submit (202), poll, delete (204), audio, synchronous endpoints, streamed synthesis | pipeline |
| Streaming VAD, `audio/vad.py` | pending samples, clock, utterance buffer, runs of speech and silence | push, flush, current_partial | frame VAD |
| Streaming transcriber, `stt/streaming.py` | utterance index, time of the last partial | feed, finish | VAD, engine in a thread |
| WebSocket sessions, `api/ws.py` | one handler per connection, the gauge `ws_active` | transcribe, synthesize | transcriber, synthesizer, client |
| Streaming synthesis, `tts/streaming.py` | none | one WAV per sentence | engine |
| Engines, `stt/whisper_engine.py`, `tts/piper_engine.py` | the loaded model or nothing | load, transcribe or synthesize, close | called from several threads |
| Fine-tuning, `finetune/train.py` | model, optimizer, scheduler, counters; `latest.pt`, `best.pt`; the report and `ct2/` | train, probe, checkpoint, resume, early stop, export | disk, MLflow |
| Model tools, `scripts/verify_ct2_model.py` | the verdict file | evaluate the int8 export, compare, spot checks | report, export, pipeline, MLflow |
| Evaluation, `eval/` | none | error rates, gate | engine, MLflow |
| Experiment tracking, `core/tracking.py` | on or off, an open run | start, log, end | MLflow server |
| Post-processing, redaction, speech text (`stt/postprocess.py`, `redaction/pii.py`, `tts/textnorm.py`) | none | text to text | transcriber, pipeline |
| Application, configuration, metrics (`api/app.py`, `api/middleware.py`, `core/`) | settings, gauges | start, shut down, count requests | all of the above |
| Fine-tuning data, audio I/O, command line, browser console, scripts | none, or one page's session | | |

What is hard in it: several workers share one list and may die at any await;
dequeue is two commands with room between them; a worker updates its own copy of
a record that may have been removed; the in-memory queue shares its Job objects
with their readers while they change; a segmenter sees chunks that end inside
frames, and thresholds that are no multiple of a frame; a client may leave while
a transcription runs in a thread; engines are loaded without a lock by whoever
needs them first; a training run may be killed between a checkpoint and the
probe that follows it, or between a report and the export it is about; a
transcript is cleaned, redacted and split by passes that each see what the one
before has left.

## Modules

Read in this order.

| Module | Models | Correspondence |
|---|---|---|
| `Job` | `pipeline/jobs.py` | The record with its three transitions. A timestamp, result or error is whether it is set. `canceled` is in the enumeration and assigned nowhere. |
| `JobLifecycle` | what the `JobQueue` protocol promises | Abstract: `stage[j]`, how far the job is, and `record[j]`, what a poll finds. Both backends refine it. |
| `RedisJobQueue`, `RedisPipeline` | Redis backend, API process, worker processes | `store` is the keys, `list` the list; `pc[w]` says where a worker is in `dequeue` or `run_job`, one action for each stretch between two awaits. `Die` is a kill or a Redis error, `Interrupt` the cancellation of the main task while the engine's thread runs, `Restart` is docker-compose's restart policy. |
| `MemoryJobQueue`, `MemoryPipeline` | in-memory backend, API event loop, worker thread in one process | Queue operations are atomic (one lock). `mark_*` assigns attribute by attribute (`todo`), and `_job_to_response` reads attribute by attribute (`toRead`). |
| `StreamingVAD` | `audio/vad.py` | `Push` appends a chunk, each frame action is one turn of push's loop, `Flush` is the end of the stream. The frame VAD's verdict is a choice. |
| `TranscriptFeed` | what `/v1/ws/transcribe` promises a client | Abstract: how many utterances were spoken and whether one is open, the finals told, the number of partials, the close code. `WsTranscribe` refines it. |
| `WsTranscribe` | `ws_transcribe` in `api/ws.py`, `StreamingTranscriber`, the client | `pc` is where the handler stands; one action for each stretch between two awaits. What the VAD makes of a chunk is a choice: how many utterances it completes and whether one is then open. |
| `SpeechSessions` | `ws_synthesize`, `synthesize?stream=true`, `transcribe`, the engine properties of `BatchPipeline`, both `load` | Callers of three kinds that share one engine of each kind. `pc[c]` is where a caller's handler, or its thread, stands: the unlocked check, the lock, the constructor, the engine, the unlocked load, the send. An engine is named by the caller that built it, a WAV by the number of its sentence. |
| `FinetuneCheckpoint` | the loop of `_run`, `_save_checkpoint`, `_load_checkpoint`, `_early_stop_update`, the user who resumes | Weights are what was trained into them; the disk is `latest` and `bestFile`. A step that writes only at its end is one action: a crash inside it leaves the disk as a crash before it. |
| `ExperimentTracker` | `core/tracking.py` | A tracker is a record, each operation the set of trackers it may leave: any call to the server may fail. |
| `ModelPromotion` | the end of `_run`, `speechai evaluate --gate`, `verify_ct2_model.py` | One output directory (`report`, `ct2`, `verdict`) on which the tools run in turn. Error rates are numbers, means exact fractions; the problems, spot checks and exit code are the script's. |
| `Redaction` | `redaction/pii.py` | A text is a sequence of groups of digits, words and one-word identifiers. The eight patterns apply in the code's order, each to what the ones before have masked. |
| `Transcript` | `transcribe_sync`, `synthesize_sync`, `stt/postprocess.py`, the grouping of words in `stt/whisper_engine.py`, the masked runs of `tts/textnorm.py` | One action for each stage of a text: heard, post-processed, in the payload, or on the way to the voice. |
| `*_proofs` | theorems about the module they extend | |
| `MC*` | the module instantiated for TLC | |

`RedisPipeline` and `MemoryPipeline` compose the job, a queue, the pipeline, a
worker and the routes, and each instantiates `JobLifecycle` with a refinement
mapping (`StageOf`, `RecordOf`). `WsTranscribe` instantiates `TranscriptFeed` with
what was completed, sent and closed; what the handler has left to do is hidden.
`ModelPromotion` composes the tools with the tracker, `Transcript` the text stages
with `Redaction`. Operators marked
"Mutant" are plausible bugs, and no specification uses them: put in place of the
definition that follows them, each breaks one of the properties, which shows
that the property depends on the code.

## Runs

| Run | Instance | States | Shows |
|---|---|---|---|
| `redis` | 2 jobs (1 synthesis), 2 workers, 2 failures, fair | 20,795 | No job is in two places or begun twice; a job deleted before a worker read it never runs; success on record implies the WAV on disk; a failure strands one job at most; records are whole. Refinement of `JobLifecycle`. Every accepted job leaves the system; absent failures and removals it gets an outcome. |
| `redis_delete` | the same, no failures | | Refuted: DELETE of a job that a worker has read is undone by the worker's next update. |
| `memory` | 3 jobs, 1 retained, 1 worker, fair | 384,800 | Overshoot of max_results is at most one job per worker; a response never mixes two outcomes; no prune takes one of the newest; the same refinement; every accepted job is let go of. |
| `vad` | 13 frames of 30 ms, chunks of half a frame and two and a half | 241,524 | Order and disjointness of utterances, separating silence, bound on the length, bound on the onset that is lost. |
| `vad_samples` | as `vad` | | Refuted: an utterance's samples cover its span. |
| `ws_transcribe` | 4 frames of any kind, up to 2 utterances per chunk, 4 ticks, fair | 192,307 | Finals are the transcript in order, none transcribed twice; a partial arrives between the finals of its neighbours; partials are throttled. Refinement of `TranscriptFeed`: nothing after the close, and close code 1000 means a complete transcript. The session ends. |
| `speech` | 1 socket, 1 streamed request, 1 upload, up to 2 sentences, fair | 227,905 | One engine of each kind; whoever has spoken once never waits for a load or loses the model to one that fails; chunks in the order of the sentences and an ending that tells the truth; the gauge; every request past its configuration ends, answered or left by its client. |
| `finetune` | 4 epochs of 3 batches, 3 error rates, 7 settings of the flags, 2 resumes, 3 crashes | 35,092 | No epoch is skipped; by how many updates the schedule falls short; each resume loses fewer than `grad_accum_steps` gradients; lost work is bounded; early stopping is earned. |
| `finetune_best` | as `finetune` | | Refuted: early stopping restores the best model seen, when there was a crash. |
| `promotion` | 2 training runs, 2 utterances, 7 setups | 407,849 | Report and export side by side are of one run unless one was stopped between the two; exit code 0 of the verification means a verdict on this export and every spot check passed; a gap above the bar means that some utterance got worse; exit code and status of the tracked run agree. |
| `text` | three phrases out of 17, and four timed words, 4 policies, 2 ways a recogniser cuts them | 527,776 | Rows hold every word once, in order and in time; an identifier that stands alone is masked, and never spoken; redaction only hides, each piece whole or down to `mask_keep_last`, and a piece that is an identifier by itself is masked whatever stands beside it. |
| `transcript_masked` | as `text` | | Refuted: the payload of a redacted transcription is clean. |

### Why the bounds are enough

*Redis.* Two workers are all that a race for one job needs; two jobs let one
wait while the other is in hand, or both be in hand. Two failures let a worker
come back and fail again, and both workers fail. The theorems hold for any
number of each.
*Memory.* Three jobs over a cap of one let a pruned job come back and be pruned
again while a newer one arrives. One worker is the deployment: the only use of
this backend with a worker is `tests/test_api.py:232`, which runs one thread.
*VAD.* Thresholds of 50, 70 and 130 ms are no multiples of 30 ms; 13 frames hold
an utterance cut by the cap, one closed by silence and one flushed. Chunks of 1
and 5 samples against frames of 2 end at every place in a frame.
*WebSocket.* Four frames are a configuration, two chunks and a stop, or one of
the malformed frames in any place. Two utterances per chunk let a send fail with
one still to be yielded. Four ticks are two intervals of the throttle.
*Sessions.* The socket and the streamed request share the voice, so the race for
the lock and for the load has its two sides; the upload shares the lock and
nothing else. Two sentences are a first and a next. The theorems hold for any
number of callers and sentences.
*Fine-tuning.* The settings cover checkpoints at the end of epochs, inside them
and further apart than an epoch, and between two updates; accumulation that does
not divide an epoch; patience of one and two; a margin or none; and runs cut
short. Four epochs are two improvements, a crash and a stall.
*Promotion.* Two runs are an earlier export and report, and newer ones. Each
setup differs from the usual one in what it is there for: validation and
manifest the same, overlapping, disjoint or empty; no export; an API key; an old
MLflow; no manifest. The removal of the old export ignores its errors
(train.py:714): it works, or the old export stays and the conversion writes over
it or fails (`ExportStays`).
*Text.* The phrases are each kind of identifier in the ways it is grouped, plain
numbers that may join a window, and words. Three put something on both sides.
Four words with every pause give rows that split at sentences, at pauses and not
at all, in a segment that takes time or none. Where the recogniser gives fewer
than two words with times its own segments are kept (whisper_engine.py:102-111):
one, or two with the cut after the second word.

Deadlock is not checked where the system may rightly stop: all jobs done, a
stream that has ended, a closed session, a finished run, a text delivered.

### Fairness

A worker's loop goes on (`WF` of `Loop(w)`): it is a `while` whose awaits all
return, since engine calls end and BLPOP is called again after its timeout. It
is weak fairness of the loop and not of each outcome: success is never promised.
`Restart` is fair because docker-compose.yml says `restart: unless-stopped`. A
handler's task is run by its event loop, and the threads it waits for go on
(`WF` of `Handler`, in `SpeechSessions` of each caller's); a caller waiting for
the engine lock needs no more than that, because whoever holds the lock leaves
it for good once the engine is there. Nothing is assumed of clients, time,
removals or failures.

## Proofs

All theorems are of the specification without fairness and hold for all values
of the constants that satisfy the modules' assumptions.

**`RedisPipeline_proofs`**: `TypeCorrect`, `NoJobRunsTwice`,
`CancelIsFinal`, `ArtifactBeforeOutcome`, `EveryRecordCoherent`,
`OneStrandedPerFailure` and the refinement `RedisKeepsPromise`, for any jobs,
workers and number of failures. The properties are not inductive by themselves:
that a worker begins only fresh jobs depends on what the key can hold while the
id is in the list, and that on who may update it. `IInv` adds `UniqueList` and
`UniqueHolder`, `WorkerInv(w)` (what a worker's copy is at each `pc`) and
`JobInv(j)` (which of the four possible records the key holds, given where the
job is). There is one lemma per action; the first lemmas show that each
transition of a record leads from a whole record to a whole record.
`OneStrandedPerFailure` needs the jobs that are about to be stranded as well: an
interrupted worker still writes "running" after its failure has been counted, and
this write can strand a job whose record a DELETE has just removed. `Doomed` are
the stranded jobs and those, `EndInv` says who is interrupted and what a last
update writes, and `DoomInv` that `Doomed` grows only with a failure.
Assumed: `NoRecord` and `NoJob` are no record and no job, `SynthJobs` is a set
of jobs, `MaxFailures` is a natural number.

**`MemoryPipeline_proofs`**: `TypeCorrect` (of a `TypeOK` that describes the state
and is checked by no run), `AnswersNeverMixed`, `CapMissedByWorkers`,
`SubmissionsEvictOldest` and the refinement `MemoryKeepsPromise`, for any finite
sets of jobs and of worker threads and any cap. `IInv` is `OrderInv` (jobs are
numbered as they came), `PlaceInv` (a job is nowhere, in the deque or with one
worker), `FreshInv` (who was not taken was not touched), `WorkerInv(w)` (what is
left of the `mark_*` call a worker is in the middle of) and `ObjectInv` (what the
shared object can show). `ResponseInv` relates a response that is half copied to
the object it is copied from: an outcome once read stays the object's.
`OvershootInv` counts the removed jobs in a worker's hand together with the
dictionary: an `update` puts one back only by taking it from the other count. It
rests on `NewestCounted`, that pruning keeps at most `max_results` jobs because
no two have the same number. `SubmissionsEvictOldest` is about the converse, that
what is pruned is old among all jobs and not only among those still there.
Assumed: finitely many jobs (ids are 16 hexadecimal digits) and workers, `NoJob`
no job, a positive `max_results`.

**The refinement of `JobLifecycle`**, in both of them, is the same argument:
initial states map to initial states, and there is one lemma for each action of
a backend, saying which abstract step it is. A submission is `Accept`, together
with what it prunes in memory; deletion, expiry and `close` are `Remove`;
taking a job is `Take` (in Redis when its record is read, so a pop stutters); the
transitions of `run_job` are `Advance`; its last update is `Settle`; the death of
a worker is `Lose`, or a stutter where nothing was in hand any more; the rest
stutters. In memory the object is the record as long as the dictionary has it, so
an assignment of `mark_*` is an `Advance` when it sets the status and a stutter
otherwise, and the first update, which may put a removed job back, is
`PublishStart`. From the refinement follows what a client can rely on
(`RedisPollsLagBehind`, `RedisPollsNeverRegress`, `RedisOverStaysOver` and their
like in memory): `Moves(j)` is what an abstract step can do to a job and its
record, and `Promised`, that a record is never ahead of its job, is inductive
under it.

**`StreamingVAD_proofs`**: `TypeCorrect`, `UtterancesNeverOverlap`,
`UtterancesLongEnough`, `SilenceSeparatesUtterances`, `UtteranceDurationBounded`,
`UtteranceOnsetBounded`, for any frame length, chunk sizes and stream length, and
any positive thresholds with `MinSpeechMs <= MaxUtteranceMs`. `IInv` is `OpenInv`
(the arithmetic of an utterance in progress), `ClosedInv` (the runs of speech and
silence otherwise) and `PastInv`, which places what was emitted before the
`Frontier`, the earliest time any later utterance can start.

**`WsTranscribe_proofs`**: `TypeCorrect`, `FinalsInOrder`, `NothingMissing`,
`PartialsRare`, `PartialsInPlace` and the refinement `SessionKeepsFeed`, for any
frames, audio and interval.
`HandlerInv` says what the handler can have left to do at each `pc`; `OrderInv`
that what is to be transcribed are the last of the completed utterances, after
all that were; `StreamInv` that, while the client is there and nothing has
failed, no utterance has been dropped, so that the events sent, the index and
the VAD's count are one number; `TimeInv` that a partial to be sent has paid for
its interval. When the client goes, `StreamInv` loses its second part and the
finals no longer grow, which is why a flush by the handler of
`WebSocketDisconnect` cannot send anything twice. The refinement has one lemma for
each kind of abstract step: a chunk and a flush are `Hear`, a send that arrives is
`TellFinal` or `TellPartial`, each way out that closes the socket is `CloseFeed`,
and the rest, the client's steps and the clock's among it, stutters. `FeedInv` is
what it needs beyond the invariant: a partial about to be sent is of an open
utterance, and nothing has been heard or sent before the loop. `NothingMissing` states by itself what the run checks as part of
the refinement, that a close with 1000 leaves nothing out.

**`SpeechSessions_proofs`**: `TypeCorrect`, `EngineBuiltOnce`, `ModelsStayLoaded`,
`GaugeIsRight`, `ClientsGetTheText`, for any callers and texts. `EngineInv` (who
can have an engine, and that it is the one in place) and `LoadInv` (who speaks or
sends has a loaded one) are inductive with the type; that the gauge is the number
of open sessions, and `OrderInv`, what a client has received by the time its
caller is where it is, are inductive on top of them. Assumed: callers of different kinds are different, and there are
finitely many sockets.

**`FinetuneCheckpoint_proofs`**: `TypeCorrect`, `EveryEpochTrained`,
`LittleIsLost`, `NoGradientLost`, `StopIsEarned`, `LearningRateLasts`, for any
number of epochs, batches, crashes and resumes, any flags and error rates.
`GradientInv` bounds what has been lost by the resumes so far, and what
`latest.pt` may lose by one more; `DistanceInv` says how far the checkpoint is
behind, in the remainder of the step by the interval; `EpochInv` says what was
trained on of the epochs before, of this one and of those to come, in the process
and in the checkpoint; `BestInv` that early stopping has a best.pt to restore.
`StallInv` says that the stall counter counts probes of this process only, each
worse than the best before it by more than the margin. `ScheduleInv` counts:
`UpdatesInv`, that updates are the quotient of the batches so far by
`grad_accum_steps`, in the process and in the checkpoint; `LengthInv`, that the
batches so far are those of the epochs plus those each resume started over;
`CutInv`, that a run cut by `--max-steps` makes one batch more whenever it is
resumed. Lemmas on remainders and quotients come first where they are needed.

**`ModelPromotion_proofs`**: `TypeCorrect`, `ReportMatchesExport`, `PassIsEarned`,
`ExitMatchesStatus`, `GapIsReal`, for any utterances, error rates, settings and
number of runs. `PairInv` follows report and export through a training run, the
export that a failed removal leaves included, `SpotInv` the checks that are over
and what is known of each, `VerdictInv` what the verdict is about, and
`TrackInv` the state of the tracked run. `RatesInv` says of which utterances the
rates on the disk are, and `GapInv` that the gap stays among the problems just
when those rates have it. `GapIsReal` then is about means: sums over one set
compare as their terms do (`TotalsCompare`). That is induction over the set. The
library's induction theorems are about formulas, which the provers cannot
instantiate; `Minimal`, a minimal element in any set of subsets of a finite set,
is about sets, and so is `NatSetInduction`, which follows from it. `SumsExist`
shows by it that the recursion inside `MapThenSumSet` has a solution, without
which nothing is known of a sum. Assumed: `Nothing` is no exit code and no
verdict, and a manifest is finite.

**`Transcript_proofs`**: `RowsAlwaysInOrder` and `RedactionAlwaysHides`, for any
texts and policies, and wherever a recogniser begins its own segments. The rows
are made by folds of the community modules, of which nothing is known until the
recursion inside them is shown to have a solution. `FoldExists` shows that once,
for any step, by the induction over sets of `NatSetInduction`; the sums of times
and of characters (`SumExists`, `SumsAgree`, `SumJoins`), the grouping of words
(`GroupingExists`) and the joining of rows (`FlattenUnfolds`) follow its pattern.
`Chain` is what grouping and sentence splitting keep word by word: rows of
consecutive words, each after the one before it. `Timed` adds the times: each row
begins where the one before it has ended, to a millisecond. Interpolation is
arithmetic (`Interpolates`): the characters of the sentences before, with their
blanks, are no more than those of the segment, so that an interpolated time is
within it. The invariant `IInv` is that the segments are `Grouped`, rows with the
times of their words, until the payload, and `Timed` from then on. It is needed
since `RowsInOrder` says of a segment neither what its times have to do with those
of its words nor that its words are consecutive, on which `Refine` relies.
Assumed: a text is a finite sequence of `Items`, whose times are natural numbers,
so that a word begins when the pause after the one before it is over, and in
which nothing is masked as it is heard (`TextsAssumption`).

`re.sub` is a recursion that goes on from further right (`ScanExists`,
`WindowsScan`): its windows are matches, and of a pattern that matches one piece at
a time every match is one (`WindowsOfOne`). A mask leaves no more than there was and
no more than `mask_keep_last` (`MaskBounds`). `Follows` is what each pattern keeps
(`ApplyMasks`), and so all eight (`PatternsFollow`): a piece is as it was or within
that limit. For a piece that is an identifier by itself, either its own pattern
finds it untouched or an earlier one has masked it already, and none after it
brings anything back (`RedactFindsPieces`).

Model-checked only:

- liveness (`EveryJobSettles`, `EveryJobAnswered`, both `SessionsEnd` and
  `SessionEnds`), which is out of the prover's reach with `ENABLED`;
- `AloneMasked` and `MaskedNeverSpoken`: whether a pattern finds an identifier of
  several groups (a card, an Aadhaar, an SSN, a phone number) depends on how its
  digits are grouped and what stands beside them. For arbitrary groups they are
  false; the run's phrases enumerate the ways they are written. What holds of
  any text, that identifiers of one piece are masked, is a theorem;
- the four refuted claims, for which a run is the proof.

## Where the code and the documentation differ

Shown by a run:

1. *A deleted job comes back* (`redis_delete`). `update` SETs whether or not the
   key exists; README.md:121 and END-TO-END-FLOW.md:667 say DELETE cancels or
   removes. `JobLifecycle` lets a removed job return, in both pipelines: the
   refinements hold with it, and only this run is about it.
2. *The onset of every utterance is lost* (`vad_samples`): the frames that opened
   it are in its span and not in its samples.
3. *A crash forgets the best model* (`finetune_best`): the checkpoint comes
   before the probe, and `best.pt` is written in place.
   HOW_TO_FINETUNE_FOR_BANKING.md:599-602 promises the best seen so far.
4. *A redacted payload shows what it masks* (`transcript_masked`): the segments
   are not redacted, `clean_text` takes an e-mail apart before it is looked for,
   and a number beside a card hides it. `stt/postprocess.py:4-6` says transcripts
   leave clean of identifiers.

Seen while reading, in no run:

- The cap on retained jobs is missed by up to one per worker (`OvershootBounded`
  is what does hold); configs/config.yaml:32 calls it hard.
- The cap on an utterance is missed when a pause covers the frame on which it
  falls due, by less than `min_silence_ms` and a frame (`DurationBounded`);
  docs/ws-protocol.md:180 calls it hard.
- A poll of the in-memory backend may answer `succeeded` without a result, since
  `mark_succeeded` sets the status first (`MemoryPipeline` reaches it).
- Two partials may arrive closer together than `partial_interval_ms`: the
  throttle is stamped before the engine runs, the event sent after
  (docs/ws-protocol.md:90). `PartialsThrottled` is what does hold.
- A partial before the first final has `utterance_index` 0; the schema's minimum
  is 1 (docs/ws-protocol.md:139).
- A text frame whose JSON is not an object, and a chunk of an odd number of
  bytes, close the socket with 1011; docs/ws-protocol.md:71 and :85 allow both.
- `ws_transcribe` makes its transcriber without a post-processor of its own, so
  finals are not redacted; docs/ws-protocol.md:106 says they are.
- With `min_delta` 0, the default, an equal WER is an improvement: an exact
  plateau never stops a fine-tuning run.
- `--max-steps` and `--save-every-steps` speak of optimizer steps;
  `global_step` counts batches, while the scheduler counts updates.
- Gradients of the last batches, fewer than `grad_accum_steps`, are never
  applied at the end of training.
- The currency words of `redaction/pii.py:43-44` are never found by `_is_phone`:
  it looks for one that ends where the number begins.
- `clean_text` puts a blank into decimals, times and e-mails.
- The last digits a mask leaves of an IFSC code are spoken, against
  README.md:171-172 and the docstring at `tts/textnorm.py:14`; the pattern for
  masked runs also takes in numbers that follow one.
- `refine_segments` may end a row of a segment without length up to a
  millisecond before it starts (`RowsInOrder` allows it).

## Not modelled

- *What engines and training compute.* An engine call succeeds or fails, a probe
  finds some error rate, weights are the batches in them; error rates are data,
  so the alignment in `eval/metrics.py` is left out.
- *Characters.* `Redaction` knows groups, separators and counts. The Luhn check
  is a mark on a group; no group of four digits begins with 0 or 1; currency
  words are left out, as above. Of `tts/textnorm.py` the expansion of amounts,
  dates and numbers into words is left out: pure rewriting by tables.
- *Wiring*: configuration overlay, middleware, request metrics, the other
  commands of the command line, upload checks and error bodies, audio
  arithmetic. They keep no state that outlives a call. The queue-depth gauge
  counts the ids of removed jobs until they are popped, against what
  `core/metrics.py:34` says of it.
- *Ctrl-C in a training*: `except Exception` at finetune/train.py:209 does not
  catch a KeyboardInterrupt, so that `end` is not called, and MLflow's own exit
  hook, which is not part of this repository, may then close the run with a status
  of its choice. `OutcomesAgree` is about exceptions, kills that run no hook, and
  processes that leave the run as the code did.
- *One-shot scripts*: downloads, sample audio, the streaming demo.
- *Fine-tuning*: resuming with other flags than before (the configuration check),
  the baseline probe, the data set and its seeded split.
- *`close` of the engines*: nothing in the service calls it.
- *The browser console*: its microphone session has state worth modelling (two
  starts, a late `onclose`).
- One transcription session and one training run are modelled alone: sessions
  share only the engine, which `SpeechSessions` is about, and runs share nothing
  but a directory, which `ModelPromotion` is about.

## Plan

In order of weight:

1. `StreamingVAD` as the source of `WsTranscribe`'s chunks: what `Push` yields is
   one of the choices the handler's model makes.
2. The microphone session of the browser console against `WsTranscribe`.
3. The number words of `tts/textnorm.py` as an operator with a reference
   definition.
