-------------------------- MODULE VoiceTranscription --------------------------
(***************************************************************************)
(* One inbound voice message: several workers hold deliveries of its job,  *)
(* each resolves the media of the event, downloads the audio, has it       *)
(* transcribed, writes the transcript into the original message, and only  *)
(* then lets the agent answer.                                             *)
(*                                                                         *)
(* Source: voice_runtime.py, gemini_transcription.py, the media part of    *)
(* channel_runtime.process_channel_event and worker.process_job.           *)
(*                                                                         *)
(* The provider is a route of the AI gateway; its file is uploaded, used   *)
(* and deleted with three requests of one call.                            *)
(***************************************************************************)
EXTENDS Naturals, FiniteSets

CONSTANTS
    VoiceWorkers,   \* worker processes that hold a delivery of the job
    Transcripts,    \* texts the provider may return
    Untold,         \* SQL NULL
    MaxDeliveries,  \* bound: deliveries of the job
    MaxVoiceFaults  \* bound: failures of a call, a delete or a process

ASSUME VoiceAssumption ==
    Untold \notin Transcripts /\ MaxDeliveries \in Nat /\ MaxVoiceFaults \in Nat

VARIABLES
    processed,     \* ChannelInboundEvent.status is processed
    voiceText,     \* Message.text
    hasPath,       \* attachment.media_metadata holds telegram_file_path
    noted,         \* ... and transcription_status
    vjob,          \* "live" until acknowledged
    vpc,           \* where each worker is
    vmeta,         \* `noted` in the metadata a worker loaded before getFile
    vresult,       \* transcript it received
    files,         \* uploads that exist at the provider, by worker
    leaked,        \* uploads nobody will delete any more
    seen,          \* message text each worker handed to its agent step
    deliveriesOf,  \* deliveries so far
    vfaults

voiceRows   == <<processed, voiceText, hasPath, noted, vjob>>
voiceLocals == <<vpc, vmeta, vresult, seen>>
voiceVars   == <<voiceRows, voiceLocals, files, leaked, deliveriesOf, vfaults>>

VoicePcs == {"idle", "resolve", "commit", "look", "download", "upload",
             "transcribe", "delete", "persist", "agent"}

VoiceTypeOK ==
    /\ processed \in BOOLEAN /\ hasPath \in BOOLEAN /\ noted \in BOOLEAN
    /\ voiceText \in Transcripts \cup {Untold}
    /\ vjob \in {"live", "acked"}
    /\ vpc \in [VoiceWorkers -> VoicePcs]
    /\ vmeta \in [VoiceWorkers -> BOOLEAN]
    /\ vresult \in [VoiceWorkers -> Transcripts \cup {Untold}]
    /\ seen \in [VoiceWorkers -> Transcripts \cup {Untold}]
    /\ files \subseteq VoiceWorkers
    /\ leaked \in Nat
    /\ deliveriesOf \in 0..MaxDeliveries /\ vfaults \in 0..MaxVoiceFaults

VoiceInit ==
    /\ processed = FALSE /\ voiceText = Untold
    /\ hasPath = FALSE /\ noted = FALSE
    /\ vjob = "live"
    /\ vpc = [w \in VoiceWorkers |-> "idle"]
    /\ vmeta = [w \in VoiceWorkers |-> FALSE]
    /\ vresult = [w \in VoiceWorkers |-> Untold]
    /\ seen = [w \in VoiceWorkers |-> Untold]
    /\ files = {} /\ leaked = 0
    /\ deliveriesOf = 0 /\ vfaults = 0

VGoto(w, l) == vpc' = [vpc EXCEPT ![w] = l]
VFault      == vfaults < MaxVoiceFaults /\ vfaults' = vfaults + 1

-----------------------------------------------------------------------------
(* process_channel_event: the media of the attachment is resolved with     *)
(* getFile between loading the metadata and writing the whole of it back.  *)

TakeVoiceJob(w) ==
    /\ vpc[w] = "idle" /\ vjob = "live" /\ deliveriesOf < MaxDeliveries
    /\ deliveriesOf' = deliveriesOf + 1
    /\ vmeta' = [vmeta EXCEPT ![w] = noted]
    /\ VGoto(w, IF processed THEN "look" ELSE "resolve")
    /\ UNCHANGED <<voiceRows, vresult, seen, files, leaked, vfaults>>

ResolveMedia(w) ==
    /\ vpc[w] = "resolve"
    /\ VGoto(w, "commit")
    /\ UNCHANGED <<voiceRows, vmeta, vresult, seen, files, leaked, deliveriesOf,
                   vfaults>>

CommitMedia(w) ==
    /\ vpc[w] = "commit"
    /\ processed' = TRUE
    /\ hasPath' = TRUE
    /\ noted' = vmeta[w]
    /\ VGoto(w, "look")
    /\ UNCHANGED <<voiceText, vjob, vmeta, vresult, seen, files, leaked,
                   deliveriesOf, vfaults>>

-----------------------------------------------------------------------------
(* process_voice_transcription.                                            *)

\* A message that has its text needs no call; one without a file path is
\* retried later.
LookUpVoice(w) ==
    /\ vpc[w] = "look"
    /\ VGoto(w, IF voiceText # Untold THEN "agent"
                ELSE IF hasPath THEN "download" ELSE "idle")
    /\ UNCHANGED <<voiceRows, vmeta, vresult, seen, files, leaked, deliveriesOf,
                   vfaults>>

DownloadVoice(w) ==
    /\ vpc[w] = "download"
    /\ VGoto(w, "upload")
    /\ UNCHANGED <<voiceRows, vmeta, vresult, seen, files, leaked, deliveriesOf,
                   vfaults>>

\* The upload is finalised, but its answer may be lost or unusable: then the
\* name of the file is unknown and nothing deletes it.
UploadAudio(w) ==
    /\ vpc[w] = "upload"
    /\ \/ /\ files' = files \cup {w}
          /\ VGoto(w, "transcribe")
          /\ UNCHANGED <<leaked, vfaults>>
       \/ /\ VFault
          /\ leaked' = leaked + 1
          /\ VGoto(w, "idle")
          /\ UNCHANGED files
    /\ UNCHANGED <<voiceRows, vmeta, vresult, seen, deliveriesOf>>

\* The interaction succeeds with a text, or fails; the finally clause runs
\* the delete in both cases.
TranscribeAudio(w) ==
    /\ vpc[w] = "transcribe"
    /\ \/ \E t \in Transcripts : vresult' = [vresult EXCEPT ![w] = t] /\ UNCHANGED vfaults
       \/ VFault /\ UNCHANGED vresult
    /\ VGoto(w, "delete")
    /\ UNCHANGED <<voiceRows, vmeta, seen, files, leaked, deliveriesOf>>

\* _delete_file_best_effort: an HTTP error of the delete is suppressed.
DeleteFile(w) ==
    /\ vpc[w] = "delete"
    /\ files' = files \ {w}
    /\ \/ UNCHANGED <<leaked, vfaults>>
       \/ VFault /\ leaked' = leaked + 1
    /\ VGoto(w, IF vresult[w] = Untold THEN "idle" ELSE "persist")
    /\ UNCHANGED <<voiceRows, vmeta, vresult, seen, deliveriesOf>>

\* Mutant: the message is written without looking at its text again.
PersistOver(w) ==
    /\ vpc[w] = "persist"
    /\ voiceText' = vresult[w] /\ noted' = TRUE
    /\ vresult' = [vresult EXCEPT ![w] = Untold]
    /\ VGoto(w, "agent")
    /\ UNCHANGED <<processed, hasPath, vjob, vmeta, seen, files, leaked,
                   deliveriesOf, vfaults>>

\* Under the lock of the message, the first transcript wins.
PersistTranscript(w) ==
    /\ vpc[w] = "persist"
    /\ IF voiceText = Untold
       THEN voiceText' = vresult[w] /\ noted' = TRUE
       ELSE UNCHANGED <<voiceText, noted>>
    /\ vresult' = [vresult EXCEPT ![w] = Untold]
    /\ VGoto(w, "agent")
    /\ UNCHANGED <<processed, hasPath, vjob, vmeta, seen, files, leaked,
                   deliveriesOf, vfaults>>

\* A retryable failure leaves the delivery pending; any other acknowledges
\* the job, and the message is not answered.
VoiceFails(w, retryable) ==
    /\ vpc[w] \in {"resolve", "download", "upload", "persist"}
    /\ VFault
    /\ vjob' = IF retryable THEN vjob ELSE "acked"
    /\ vresult' = [vresult EXCEPT ![w] = Untold]
    /\ VGoto(w, "idle")
    /\ UNCHANGED <<processed, voiceText, hasPath, noted, vmeta, seen, files,
                   leaked, deliveriesOf>>

\* The agent, the memory extraction, and the acknowledgement.
AnswerVoice(w) ==
    /\ vpc[w] = "agent"
    /\ seen' = [seen EXCEPT ![w] = voiceText]
    /\ vjob' = "acked"
    /\ VGoto(w, "idle")
    /\ UNCHANGED <<processed, voiceText, hasPath, noted, vmeta, vresult, files,
                   leaked, deliveriesOf, vfaults>>

VoiceCrash(w) ==
    /\ vpc[w] # "idle" /\ VFault
    /\ files' = files \ {w}
    /\ leaked' = IF w \in files THEN leaked + 1 ELSE leaked
    /\ vresult' = [vresult EXCEPT ![w] = Untold]
    /\ VGoto(w, "idle")
    /\ UNCHANGED <<voiceRows, vmeta, seen, deliveriesOf>>

VoiceStep(w) ==
    \/ TakeVoiceJob(w) \/ ResolveMedia(w) \/ CommitMedia(w) \/ LookUpVoice(w)
    \/ DownloadVoice(w) \/ UploadAudio(w) \/ TranscribeAudio(w) \/ DeleteFile(w)
    \/ PersistTranscript(w) \/ \E r \in BOOLEAN : VoiceFails(w, r)
    \/ AnswerVoice(w) \/ VoiceCrash(w)

VoiceNext == \E w \in VoiceWorkers : VoiceStep(w)

-----------------------------------------------------------------------------
(* Properties.                                                             *)

\* Whatever the deliveries do, all agents are given one text: nobody answers
\* before a transcript exists, and no later transcript replaces the first
\* (voice_runtime.process_voice_transcription, worker.process_job).
OneTranscript == \A w \in VoiceWorkers : seen[w] # Untold => seen[w] = voiceText

AnswersFollowTranscript ==
    \A w \in VoiceWorkers : vpc[w] = "agent" => voiceText # Untold

\* An upload exists only while its worker still has to delete it; the others
\* are lost to a fault each (gemini_transcription.transcribe_with_gemini).
UploadsAreReleased ==
    /\ \A w \in files : vpc[w] \in {"transcribe", "delete"}
    /\ leaked <= vfaults

\* The transcript is written once, before any answer, and its upload is
\* released whether or not the transcription succeeds.
VoiceIsTranscribedOnce ==
    OneTranscript /\ AnswersFollowTranscript /\ UploadsAreReleased
=============================================================================
