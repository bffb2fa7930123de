---------------------------- MODULE VoicePlayback ----------------------------
(***************************************************************************)
(* The playback of spoken answers in voice.cpp: each has its own player    *)
(* process and its own download, and a newer one replaces it.              *)
(*                                                                         *)
(* External and modelled from its use: the voice overlay, which plays an   *)
(* answer or stops the playback whenever it likes; the player, which may   *)
(* fail to start or exit at any time, and which QProcess reports later;    *)
(* and the network, which delivers a part of an answer, ends the download  *)
(* or lets it run into its transfer timeout.                               *)
(***************************************************************************)
EXTENDS Naturals

CONSTANT MaxPlaybacks    \* bound: answers that are played

ASSUME VoicePlaybackAssumption == MaxPlaybacks \in Nat

Playbacks == 1..MaxPlaybacks
None == 0

VARIABLES
  player,     \* m_player: the playback it belongs to, or None
  reply,      \* m_speechReply, likewise
  process,    \* the state of each player as QProcess knows it
  dead,       \* players that have exited, whether QProcess has noticed or not
  killed,     \* players that were sent a kill
  closed,     \* players whose input is closed
  download,   \* the state of each download
  count,      \* bound: answers played so far
  heard,      \* history: the answers written to each player
  ends,       \* history: assistantAudioSpeechResponseEnd emitted for each answer
  replaced    \* history: answers stopped by a newer one or by a new question

voiceVars == <<player, reply, process, dead, killed, closed, download, count, heard, ends,
               replaced>>

Alive == {"starting", "running"}

\* m_player and m_speechReply never point to a player or a download that is gone.
VoiceTypeOK ==
  /\ player \in Playbacks \cup {None} /\ reply \in Playbacks \cup {None}
  /\ process \in [Playbacks -> Alive \cup {"none", "gone"}]
  /\ download \in [Playbacks -> {"none", "loading", "over"}]
  /\ dead \subseteq Playbacks /\ killed \subseteq Playbacks /\ closed \subseteq Playbacks
  /\ count \in 0..MaxPlaybacks /\ replaced \subseteq Playbacks
  /\ heard \in [Playbacks -> SUBSET Playbacks] /\ ends \in [Playbacks -> Nat]
  /\ player # None => process[player] \in Alive
  /\ reply # None => download[reply] = "loading"

VoiceInit ==
  /\ player = None /\ reply = None
  /\ process = [p \in Playbacks |-> "none"] /\ download = [p \in Playbacks |-> "none"]
  /\ dead = {} /\ killed = {} /\ closed = {} /\ replaced = {} /\ count = 0
  /\ heard = [p \in Playbacks |-> {}] /\ ends = [p \in Playbacks |-> 0]

End(p) == ends' = [ends EXCEPT ![p] = @ + 1]

-----------------------------------------------------------------------------
(* The calls of the overlay                                                *)

\* The players killed after the current one is stopped: a kill may miss one that is starting.
KilledWith(p) ==
  IF p = None THEN {killed}
  ELSE IF process[p] = "starting" THEN {killed, killed \cup {p}}
  ELSE {killed \cup {p}}

AbortDownload ==
  /\ reply' = None
  /\ download' = IF reply = None THEN download ELSE [download EXCEPT ![reply] = "over"]

\* stopSpeechResponse(), without the m_player that follows
Stop ==
  /\ AbortDownload
  /\ killed' \in KilledWith(player)
  /\ replaced' = replaced \cup ({player} \ {None})

\* A new question is asked: the overlay stops the answer to the previous one.
StopSpeechResponse ==
  /\ Stop
  /\ player' = None
  /\ UNCHANGED <<process, dead, closed, count, heard, ends>>

(***************************************************************************)
(* playSpeechResponse(): what plays is stopped, and the player starts.  An *)
(* answer of an unsupported type has ended at once.                        *)
(***************************************************************************)
PlaySpeechResponse(supported) ==
  /\ count < MaxPlaybacks /\ count' = count + 1
  /\ Stop
  /\ IF supported
     THEN /\ player' = count' /\ process' = [process EXCEPT ![count'] = "starting"]
          /\ UNCHANGED ends
     ELSE player' = None /\ End(count') /\ UNCHANGED process
  /\ UNCHANGED <<dead, closed, heard>>

-----------------------------------------------------------------------------
(* The player                                                              *)

\* Mutant: a player that was replaced while it was starting is left alone.
StartedAndLeft(p) ==
  /\ process[p] = "starting"
  /\ process' = [process EXCEPT ![p] = "running"]
  /\ IF p = player
     THEN reply' = p /\ download' = [download EXCEPT ![p] = "loading"]
     ELSE UNCHANGED <<reply, download>>
  /\ UNCHANGED <<player, dead, killed, closed, count, heard, ends, replaced>>

\* started(): the download begins, unless the playback was replaced meanwhile.
Started(p) ==
  /\ process[p] = "starting"
  /\ process' = [process EXCEPT ![p] = "running"]
  /\ IF p = player
     THEN reply' = p /\ download' = [download EXCEPT ![p] = "loading"] /\ UNCHANGED killed
     ELSE killed' = killed \cup {p} /\ UNCHANGED <<reply, download>>
  /\ UNCHANGED <<player, dead, closed, count, heard, ends, replaced>>

\* errorOccurred(FailedToStart)
FailsToStart(p) ==
  /\ process[p] = "starting" /\ p \notin dead
  /\ process' = [process EXCEPT ![p] = "gone"]
  /\ dead' = dead \cup {p}
  /\ IF p = player THEN AbortDownload /\ player' = None /\ End(p)
     ELSE UNCHANGED <<player, reply, download, ends>>
  /\ UNCHANGED <<killed, closed, count, heard, replaced>>

\* The process ends: it crashed, was killed or has played all of its input.
Exits(p) ==
  /\ process[p] \in Alive /\ p \notin dead
  /\ dead' = dead \cup {p}
  /\ UNCHANGED <<player, reply, process, killed, closed, download, count, heard, ends, replaced>>

\* Mutant: the end of a replaced player is reported.
FinishedAnyway(p) ==
  /\ process[p] = "running" /\ p \in dead
  /\ process' = [process EXCEPT ![p] = "gone"]
  /\ player' = (IF p = player THEN None ELSE player) /\ End(p)
  /\ UNCHANGED <<reply, dead, killed, closed, download, count, heard, replaced>>

\* finished(); the download may still be under way, and goes on.
Finished(p) ==
  /\ process[p] = "running" /\ p \in dead
  /\ process' = [process EXCEPT ![p] = "gone"]
  /\ IF p = player THEN player' = None /\ End(p) ELSE UNCHANGED <<player, ends>>
  /\ UNCHANGED <<reply, dead, killed, closed, download, count, heard, replaced>>

-----------------------------------------------------------------------------
(* The download                                                            *)

\* readyRead()
ReadyRead(p) ==
  /\ download[p] = "loading"
  /\ heard' = IF reply = p /\ player = p THEN [heard EXCEPT ![p] = @ \cup {p}] ELSE heard
  /\ UNCHANGED <<player, reply, process, dead, killed, closed, download, count, ends, replaced>>

\* Mutant: a player whose download failed keeps waiting for input.
ReplySucceeded(p, ok) ==
  /\ download[p] = "loading" /\ download' = [download EXCEPT ![p] = "over"]
  /\ IF reply = p
     THEN reply' = None /\ closed' = IF player = p /\ ok THEN closed \cup {p} ELSE closed
     ELSE UNCHANGED <<reply, closed>>
  /\ UNCHANGED <<player, process, dead, killed, count, heard, ends, replaced>>

\* finished() of the reply: also a failed download ends the input of the player.
ReplyFinished(p, ok) ==
  /\ download[p] = "loading" /\ download' = [download EXCEPT ![p] = "over"]
  /\ IF reply = p
     THEN reply' = None /\ closed' = IF player = p THEN closed \cup {p} ELSE closed
     ELSE UNCHANGED <<reply, closed>>
  /\ UNCHANGED <<player, process, dead, killed, count, heard, ends, replaced>>

-----------------------------------------------------------------------------

VoiceNext ==
  \/ StopSpeechResponse
  \/ \E supported \in BOOLEAN : PlaySpeechResponse(supported)
  \/ \E p \in Playbacks :
       \/ Started(p) \/ FailsToStart(p) \/ Exits(p) \/ Finished(p)
       \/ ReadyRead(p)
       \/ \E ok \in BOOLEAN : ReplyFinished(p, ok)

VoiceSpec == VoiceInit /\ [][VoiceNext]_voiceVars

(***************************************************************************)
(* QProcess reports what happened to a player, a killed one and one that   *)
(* has all of its input exit, and a download ends or times out.            *)
(***************************************************************************)
VoiceFairness ==
  \A p \in Playbacks :
    /\ WF_voiceVars(Started(p) \/ FailsToStart(p))
    /\ WF_voiceVars(process[p] = "running" /\ p \in killed \cup closed /\ Exits(p))
    /\ WF_voiceVars(Finished(p))
    /\ WF_voiceVars(\E ok \in BOOLEAN : ReplyFinished(p, ok))

VoiceFairSpec == VoiceSpec /\ VoiceFairness

-----------------------------------------------------------------------------
(* Properties                                                              *)

(***************************************************************************)
(* openspec voice-assistant, "the end of a playback SHALL be reported      *)
(* exactly once", and not at all for one that was replaced or stopped:     *)
(* its end would close the overlay of the next answer or question.         *)
(***************************************************************************)
EndedOrReplaced ==
  \A p \in Playbacks :
    /\ p > count => ends[p] = 0 /\ p # player /\ p \notin replaced
    /\ p \in replaced => ends[p] = 0 /\ p # player
    /\ p \in 1..count \ replaced => ends[p] = IF p = player THEN 0 ELSE 1

(***************************************************************************)
(* "nothing of the previous answer reaches the new player": each player    *)
(* only ever hears its own answer, and hears it only while it is the       *)
(* newest and QProcess has not seen it exit.                               *)
(***************************************************************************)
HearsOwnAnswer ==
  [][\A p \in Playbacks :
       heard'[p] # heard[p] =>
         heard'[p] = {p} /\ p = player /\ p \notin replaced /\ process[p] = "running"]_voiceVars

(***************************************************************************)
(* At most one answer sounds at a time: every other player that has        *)
(* started was killed, also one that was replaced while it was starting.   *)
(***************************************************************************)
OnlyNewestPlays ==
  \A p \in Playbacks : process[p] = "running" => p = player \/ p \in killed \cup dead

(***************************************************************************)
(* A playback ends, whether its download succeeds or not, so that the      *)
(* overlay of the answer closes by itself.                                 *)
(***************************************************************************)
PlaybackEnds == \A p \in Playbacks : player = p ~> player # p

=============================================================================
