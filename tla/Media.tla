-------------------------------- MODULE Media ---------------------------------
(***************************************************************************)
(* The media of one call (backend/src/call.rs): which video layers are     *)
(* forwarded to whom, with what rates, who is the active speaker, which    *)
(* key frames are asked for and which SSRC padding is sent with.  Every    *)
(* handler runs with the call's mutex held, hence each is one action.      *)
(*                                                                         *)
(* An SSRC is <<demux ID, layer index>>.  Audio levels are abstracted to   *)
(* their outcome: any client may turn out to be the most active one.       *)
(* Instants are abstracted to what their comparison decides: `due`         *)
(* parameters of the actions, and for a key frame request its age.         *)
(***************************************************************************)
EXTENDS VideoAllocation

CONSTANTS
    DemuxIds,
    VideoSenders,       \* the devices that send video
    Scenes,             \* by name, the devices of a call and what may come from them
    InitialTarget,      \* initial_target_send_rate
    DefaultMaxRate,     \* default_requested_max_send_rate
    HighRes             \* the height above which key frames are requested less often, 720

Ssrcs == VideoSenders \X LayerIndices
DemuxIdOf(ssrc) == ssrc[1]

\* The age of a key frame request: "fresh" until KEY_FRAME_REQUEST_RESEND_INTERVAL,
\* "recent" until HIGH_RES_KEY_FRAME_REQUEST_RESEND_INTERVAL, then "old".
Ages == {"fresh", "recent", "old"}

VARIABLES
    clients,        \* the demux IDs of the participating clients, in the order of the Vec
    client,         \* the Client of each participant, by demux ID
    active_speaker, \* active_speaker_id
    speakers,       \* the clients that became active speaker, in that order
    asked,          \* key_frame_request_sent_by_ssrc: the ages
    asked_lately,   \* within KEY_FRAME_REQUEST_CALCULATION_INTERVAL of key_frame_requests_sent
    calculated,     \* whether active_speaker_calculated is now: set by the last step
    changed,        \* client_added_or_removed > clients_update_sent
    scene           \* which of the Scenes this call is; it does not change

vars == <<clients, client, active_speaker, speakers, asked, asked_lately, calculated, changed, scene>>

Participants == Range(clients)

Unused == [forwarding |-> None, switching |-> None]

NewClient ==
    [layers          |-> [i \in LayerIndices |->
                           [incoming_rate |-> 0, incoming_height |-> 0, resolution |-> None]],
     rotated         |-> FALSE,
     video_request   |-> None,
     target          |-> InitialTarget,
     current_min     |-> InitialTarget,
     old_min         |-> InitialTarget,
     drain           |-> 0,
     padding_ssrc    |-> None,
     video_forwarder |-> <<>>,
     audio_forwarder |-> {},
     allocated_height |-> <<>>,
     told_speaker    |-> None]
------------------------------------------------------------------------------
(* Allocation.  The operators take the state they read as arguments, since *)
(* a handler allocates in the middle of what it does.                      *)

\* The height a receiver wants of a sender, with the default of 1 and the larger
\* one for the active speaker.
RequestedHeight(c, s, speaker) ==
    LET r      == c.video_request
        plain  == IF r = None \/ (r # None /\ r.requests[s] = None) THEN 1 ELSE r.requests[s]
        larger == IF r = None THEN 0 ELSE r.active_speaker_height
    IN  IF s = speaker /\ larger > plain THEN larger ELSE plain

MaxRate(c) == IF c.video_request = None THEN DefaultMaxRate ELSE c.video_request.max_rate

MinTarget(c) == IF c.current_min < c.old_min THEN c.current_min ELSE c.old_min

Interesting(s, spk) == IF \E i \in DOMAIN spk : spk[i] = s
                       THEN CHOOSE i \in DOMAIN spk : spk[i] = s ELSE 0

\* The layer of s that the receiver c is being forwarded.
ForwardedLayer(c, s) ==
    IF s \in DOMAIN c.video_forwarder /\ c.video_forwarder[s].forwarding # None
    THEN ForwardingSsrc(c.video_forwarder[s])[2] ELSE None

\* The AllocatableVideos of a receiver: one for each other client.
Videos(d, order, by_id, speaker, spk) ==
    LET others == SelectSeq(order, LAMBDA s : s # d)
    IN  [k \in DOMAIN others |->
           [sender                |-> others[k],
            layers                |-> by_id[others[k]].layers,
            requested_height      |-> RequestedHeight(by_id[d], others[k], speaker),
            allocated_layer_index |-> ForwardedLayer(by_id[d], others[k]),
            interesting           |-> Interesting(others[k], spk),
            position              |-> k]]

\* allocate_video_layers: the receiver with its forwarders set.
AllocateVideoLayers(d, order, by_id, speaker, spk) ==
    LET c      == by_id[d]
        videos == Videos(d, order, by_id, speaker, spk)
        result == AllocateSendRate(c.target, MinTarget(c), IdealSendRate(videos, MaxRate(c)),
                                   c.drain, videos)
        Desired(s)   == IF s \in DOMAIN result THEN <<s, result[s].layer_index>> ELSE None
        Forwarder(s) == IF s \in DOMAIN c.video_forwarder THEN c.video_forwarder[s] ELSE Unused
    IN  [c EXCEPT
           !.video_forwarder  = [s \in Range(order) \ {d} |-> SetDesired(Forwarder(s), Desired(s))]
                                  @@ @,
           !.allocated_height = [s \in DOMAIN result |-> result[s].height]]

\* Each receiver's allocation reads only the others' incoming video, so that a
\* loop over receivers is one update of them all.
Reallocate(receivers, order, by_id, speaker, spk) ==
    [d \in receivers |-> AllocateVideoLayers(d, order, by_id, speaker, spk)] @@ by_id

\* Seeded fault: everyone is given the SSRC of the first client.
PaddingFromTheFirst(order, by_id) ==
    [d \in Range(order) |->
        [by_id[d] EXCEPT !.padding_ssrc = IF Len(order) = 1 THEN None ELSE order[1]]]

\* update_padding_ssrcs; the RTX SSRC of a client's base layer is named by the client.
UpdatePaddingSsrcs(order, by_id) ==
    [d \in Range(order) |->
        [by_id[d] EXCEPT !.padding_ssrc = CASE Len(order) = 1 -> None
                                            [] Len(order) > 1 /\ d = order[1] -> order[2]
                                            [] OTHER -> order[1]]]
------------------------------------------------------------------------------
(* Joining and leaving.                                                    *)

\* The check of has_client, for participating clients.
NewDevice(d) == d \notin Participants

\* promote_client.
Join(d) ==
    /\ NewDevice(d)
    /\ clients' = Append(clients, d)
    /\ LET added == d :> NewClient @@ client
       IN  client' = UpdatePaddingSsrcs(clients',
                        Reallocate({d}, clients', added, active_speaker, speakers))
    /\ changed' = TRUE
    /\ calculated' = FALSE
    /\ UNCHANGED <<active_speaker, speakers, asked, asked_lately, scene>>

\* Seeded fault: the forwarders of the clients that left are kept.
ForwardersKept(c, gone) == c

\* The forwarders are removed with their senders.
ForgetSenders(c, gone) ==
    [c EXCEPT !.video_forwarder = Restrict(@, DOMAIN @ \ gone),
              !.audio_forwarder = @ \ gone]

\* update_for_removed_clients, once `gone` are out of the list.
UpdateForRemovedClients(gone, order) ==
    LET spk   == SelectSeq(speakers, LAMBDA s : s \notin gone)
        stay  == Range(order)
        ready == UpdatePaddingSsrcs(order,
                     Reallocate(stay, order, Restrict(client, stay), active_speaker, spk))
    IN  /\ clients' = order
        /\ client' = [d \in stay |-> ForgetSenders(ready[d], gone)]
        /\ speakers' = spk
        /\ asked' = [x \in Ssrcs |-> IF DemuxIdOf(x) \in gone THEN None ELSE asked[x]]
        /\ changed' = TRUE
        /\ calculated' = FALSE
        /\ UNCHANGED <<active_speaker, asked_lately, scene>>

\* swap_remove: the last client takes the place of the one removed.
SwapRemove(order, d) ==
    LET i == CHOOSE k \in DOMAIN order : order[k] = d
    IN  SubSeq([order EXCEPT ![i] = order[Len(order)]], 1, Len(order) - 1)

\* remove_client: a client leaves, times out or is removed by an admin.
Leave(d) == d \in Participants /\ UpdateForRemovedClients({d}, SwapRemove(clients, d))

\* block_client drains all the clients of the blocked user.
Block(ds) ==
    /\ ds # {} /\ ds \subseteq Participants
    /\ UpdateForRemovedClients(ds, SelectSeq(clients, LAMBDA d : d \notin ds))
------------------------------------------------------------------------------
(* What devices send.                                                      *)

\* The video request of handle_device_to_sfu; resending the same one does nothing.
VideoRequest(d, request) ==
    /\ d \in Participants
    /\ request # client[d].video_request
    /\ LET asking == [client EXCEPT ![d].video_request = request]
       IN  client' = Reallocate({d}, clients, asking, active_speaker, speakers)
    /\ calculated' = FALSE
    /\ UNCHANGED <<clients, active_speaker, speakers, asked, asked_lately, changed, scene>>

\* apply_rotation.
HeightOf(resolution, rotated) == IF rotated THEN resolution[1] ELSE resolution[2]

\* Seeded fault: a rotation is applied to the layer it came with only.
AppliesTo(j, i) == j = i

\* The layers that are given their height anew when layer i changes.
Applies(j, i) == j <= i

\* The sender after a packet with a resolution (a key frame) or a rotation: a change
\* sets the heights anew and clears the resolutions of the higher layers.
UpdateIncomingVideo(c, i, resolution, rotated) ==
    LET old == c.layers[i].resolution
        new == IF resolution = None THEN old ELSE resolution
        rot == IF rotated = None THEN c.rotated ELSE rotated
        Updated(j) ==
            LET r == IF j = i THEN new ELSE c.layers[j].resolution
            IN  CASE j > i  -> [c.layers[j] EXCEPT !.resolution = None, !.incoming_height = 0]
                  [] Applies(j, i) /\ r # None -> [c.layers[j] EXCEPT !.resolution = r,
                                                               !.incoming_height = HeightOf(r, rot)]
                  [] OTHER -> c.layers[j]
    IN  IF new = old /\ rot = c.rotated THEN c
        ELSE [c EXCEPT !.rotated = rot, !.layers = [j \in LayerIndices |-> Updated(j)]]

\* Seeded fault: the switch is not over when the key frame has come.
ForwardVideoSwitchingOn(fwd, ssrc, key) ==
    IF key /\ fwd.switching = ssrc
    THEN [fwd EXCEPT !.forwarding = [incoming_ssrc |-> ssrc, needs_key_frame |-> FALSE]]
    ELSE fwd

\* forward_vp8_rtp, without the IDs: a key frame of the layer waited for is where
\* the forwarder switches to it.
ForwardVideo(fwd, ssrc, key) ==
    CASE key /\ fwd.switching = ssrc ->
            [forwarding |-> [incoming_ssrc |-> ssrc, needs_key_frame |-> FALSE],
             switching  |-> None]
      [] key /\ fwd.switching # ssrc /\ ForwardingSsrc(fwd) = ssrc ->
            [fwd EXCEPT !.forwarding.needs_key_frame = FALSE]
      [] OTHER -> fwd

\* handle_media_rtp for video: the key frames carry the resolution.
VideoPacket(s, i, resolution, rotated) ==
    /\ s \in Participants
    /\ client' = [d \in Participants |->
           CASE d = s -> UpdateIncomingVideo(client[d], i, resolution, rotated)
             [] d # s /\ s \in DOMAIN client[d].video_forwarder ->
                    [client[d] EXCEPT !.video_forwarder[s] =
                        ForwardVideo(@, <<s, i>>, resolution # None)]
             [] OTHER -> client[d]]
    /\ calculated' = FALSE
    /\ UNCHANGED <<clients, active_speaker, speakers, asked, asked_lately, changed, scene>>

\* handle_media_rtp for audio that is not silence, and likewise for data: each
\* receiver's forwarder is created by the first packet.
AudioPacket(s) ==
    /\ s \in Participants
    /\ client' = [d \in Participants |->
           IF d = s THEN client[d] ELSE [client[d] EXCEPT !.audio_forwarder = @ \cup {s}]]
    /\ calculated' = FALSE
    /\ UNCHANGED <<clients, active_speaker, speakers, asked, asked_lately, changed, scene>>
------------------------------------------------------------------------------
(* Rates, key frames and the tick.                                         *)

\* Seeded fault: a lower target does not lower the smallest one.
NewCurrentMinKept(c, rate, due) == IF due THEN rate ELSE c.current_min

NewCurrentMin(c, rate, due) == IF due \/ rate < c.current_min THEN rate ELSE c.current_min

\* set_target_send_rate; `due` when a new generation of the minimum starts.
SetTargetSendRate(d, rate, due) ==
    /\ d \in Participants
    /\ client' = [client EXCEPT ![d].target      = rate,
                                ![d].old_min     = IF due THEN client[d].current_min ELSE @,
                                ![d].current_min = NewCurrentMin(client[d], rate, due)]
    /\ calculated' = FALSE
    /\ UNCHANGED <<clients, active_speaker, speakers, asked, asked_lately, changed, scene>>

\* The layers some receiver's forwarder waits for a key frame of.
NeededKeyFrames(by_id) ==
    UNION {{NeedsKeyFrame(by_id[d].video_forwarder[s]) : s \in DOMAIN by_id[d].video_forwarder} :
              d \in DOMAIN by_id} \ {None}

\* Seeded fault: a request that is still awaiting its key frame is never repeated.
MayAskOnce(x, by_id) == asked[x] = None

\* incoming_video_height is 0 for an unknown client or layer.
MayAsk(x, by_id) ==
    LET high == /\ DemuxIdOf(x) \in DOMAIN by_id
                /\ by_id[DemuxIdOf(x)].layers[x[2]].incoming_height > HighRes
    IN  IF high THEN asked[x] \in {None, "old"} ELSE asked[x] # "fresh"

\* The requests send_key_frame_requests_if_its_been_too_long makes.
KeyFrameRequests(by_id) ==
    IF asked_lately THEN {} ELSE {x \in NeededKeyFrames(by_id) : MayAsk(x, by_id)}

\* The end of a handler that asks for key frames.
AskForKeyFrames(by_id) ==
    asked' = [x \in Ssrcs |-> IF x \in KeyFrameRequests(by_id) THEN "fresh" ELSE asked[x]]

\* handle_key_frame_requests, for one request of the device.
KeyFrameRequest(d, s) ==
    /\ d \in Participants
    /\ client' = IF s \in DOMAIN client[d].video_forwarder
                 THEN [client EXCEPT ![d].video_forwarder[s] = SetNeedsKeyFrame(@)] ELSE client
    /\ AskForKeyFrames(client')
    /\ asked_lately' = TRUE
    /\ calculated' = FALSE
    /\ UNCHANGED <<clients, active_speaker, speakers, changed, scene>>

\* Seeded fault: the speaker is announced only when it changes.
SpeakerAnnouncedOnChange(new) == new

\* Whether the update to the participants names the speaker.
SpeakerAnnounced(new) == new \/ changed

\* Seeded fault: the last speaker stays the most active one although it left.
MostActiveOrGone(contender) ==
    CASE contender # None -> contender
      [] contender = None /\ active_speaker # None -> active_speaker
      [] OTHER -> clients[1]

\* calculate_active_speaker: the contender the levels favour if there is one,
\* otherwise the speaker so far, or the first client if that one is gone.
MostActive(contender) ==
    CASE contender # None -> contender
      [] contender = None /\ active_speaker \in Participants -> active_speaker
      [] OTHER -> clients[1]

\* Sfu::tick sets the drain rates, then Call::tick runs.  `rates` is what the
\* trackers measure, `speaker_due` and `due` say whether the active speaker is to
\* be calculated and which receivers have not been allocated lately.  (The
\* periodic announcement of the speaker repeats what EveryoneKnowsTheSpeaker
\* says has been announced; the requests for the higher layers of a new speaker
\* leave no trace in the call.)
Tick(rates, drains, speaker_due, contender, due) ==
    LET new      == speaker_due /\ clients # <<>> /\ MostActive(contender) # active_speaker
        speaker  == IF new THEN MostActive(contender) ELSE active_speaker
        spk      == IF new THEN Append(SelectSeq(speakers, LAMBDA s : s # speaker), speaker)
                    ELSE speakers
        measured == [d \in Participants |->
                        [client[d] EXCEPT
                           !.drain  = drains[d],
                           !.layers = [i \in LayerIndices |->
                                         [@[i] EXCEPT !.incoming_rate = rates[d][i]]]]]
        ready    == Reallocate(due, clients, measured, speaker, spk)
    IN  /\ active_speaker' = speaker
        /\ speakers' = spk
        /\ client' = IF SpeakerAnnounced(new) /\ speaker # None
                     THEN [d \in Participants |-> [ready[d] EXCEPT !.told_speaker = speaker]]
                     ELSE ready
        /\ AskForKeyFrames(ready)
        /\ asked_lately' = TRUE
        /\ changed' = FALSE
        /\ calculated' = speaker_due
        /\ UNCHANGED <<clients, scene>>

\* KEY_FRAME_REQUEST_CALCULATION_INTERVAL passes.
ShortTimePasses ==
    /\ asked_lately
    /\ asked_lately' = FALSE
    /\ calculated' = FALSE
    /\ UNCHANGED <<clients, client, active_speaker, speakers, asked, changed, scene>>

\* The key frame requests of some SSRCs grow older.
LongTimePasses(S) ==
    /\ \E x \in S : asked[x] \in {"fresh", "recent"}
    /\ asked' = [x \in Ssrcs |-> CASE x \in S /\ asked[x] = "fresh"  -> "recent"
                                   [] x \in S /\ asked[x] = "recent" -> "old"
                                   [] OTHER -> asked[x]]
    /\ asked_lately' = FALSE
    /\ calculated' = FALSE
    /\ UNCHANGED <<clients, client, active_speaker, speakers, changed, scene>>
------------------------------------------------------------------------------
Init ==
    /\ clients = <<>>
    /\ client = <<>>
    /\ active_speaker = None
    /\ speakers = <<>>
    /\ asked = [x \in Ssrcs |-> None]
    /\ asked_lately = FALSE
    /\ calculated = FALSE
    /\ changed = FALSE
    /\ scene \in DOMAIN Scenes

\* What a scene consists of: the devices; those that may leave, and the sets that
\* may be blocked together; the receivers of video with their video requests, their
\* target rates and, by device, the drain rates; the <<layer, resolution, rotation>>
\* of the packets of each sender and the rates measured; the devices that send
\* audio and those that may become the most active.
In == Scenes[scene]

TickSome(speaker_due) ==
    \E rates \in In.rates, drains \in In.drains, due \in SUBSET (Participants \cap In.receivers),
       contender \in (Participants \cap In.talkers) \cup {None} :
        /\ speaker_due \/ contender = None
        /\ Tick(rates, drains, speaker_due, contender, due)

Next ==
    \/ \E d \in In.devices : Join(d)
    \/ \E d \in In.leavers : Leave(d)
    \/ \E ds \in In.users : Block(ds \cap Participants)
    \/ \E d \in In.receivers : \E r \in In.video_requests : VideoRequest(d, r)
    \/ \E s \in In.devices : \E p \in In.packets[s] : VideoPacket(s, p[1], p[2], p[3])
    \/ \E s \in In.audio : AudioPacket(s)
    \/ \E d \in In.receivers : \E rate \in In.targets, due \in BOOLEAN :
          SetTargetSendRate(d, rate, due)
    \/ \E d \in In.receivers, s \in In.devices : KeyFrameRequest(d, s)
    \/ \E speaker_due \in BOOLEAN : TickSome(speaker_due)
    \/ ShortTimePasses
    \/ \E S \in SUBSET {x \in Ssrcs : asked[x] # None} : LongTimePasses(S)

Spec == Init /\ [][Next]_vars

\* The SFU ticks for ever and every so often the speaker is due; time passes.
Fairness ==
    /\ []<>calculated
    /\ WF_vars(ShortTimePasses)
    /\ WF_vars(LongTimePasses(Ssrcs))

FairSpec == Spec /\ Fairness
------------------------------------------------------------------------------
(* What the handlers keep.                                                 *)

Forwarders == [forwarding : [incoming_ssrc : Ssrcs, needs_key_frame : BOOLEAN] \cup {None},
               switching  : Ssrcs \cup {None}]

\* The variables have their types, and the clients of the list are those with a
\* state.
TypeOK ==
    /\ IsInjective(clients)
    /\ DOMAIN client = Participants
    /\ active_speaker \in DemuxIds \cup {None}
    /\ Range(speakers) \subseteq Participants
    /\ asked \in [Ssrcs -> Ages \cup {None}]
    /\ asked_lately \in BOOLEAN
    /\ calculated \in BOOLEAN
    /\ changed \in BOOLEAN
    /\ scene \in DOMAIN Scenes
    /\ \A d \in Participants : \A s \in DOMAIN client[d].video_forwarder :
          client[d].video_forwarder[s] \in Forwarders

\* "they have to be an SSRC of another client": padding goes out with the SSRC of
\* another client that is in the call, whenever there is one, whatever the order
\* in which clients came and went (swap_remove changes the order of the list).
PaddingIsForAnother ==
    \A d \in Participants :
        IF Len(clients) = 1 THEN client[d].padding_ssrc = None
        ELSE client[d].padding_ssrc \in Participants \ {d}

\* When a client is gone nothing of it is left behind: no forwarder of its media,
\* no height allocated to it, no record of its key frame requests, no padding with
\* its SSRC (drop_client, adjust_padding_send_ssrc).
NothingOfTheDeparted ==
    /\ PaddingIsForAnother
    /\ \A x \in Ssrcs : asked[x] # None => DemuxIdOf(x) \in Participants
    /\ \A d \in Participants :
          /\ DOMAIN client[d].video_forwarder \subseteq Participants
          /\ DOMAIN client[d].allocated_height \subseteq Participants
          /\ client[d].audio_forwarder \subseteq Participants

\* A device is told it gets video of exactly the senders its send rate has been
\* allocated to (demux_ids_with_video and allocated_heights of CurrentDevices).
VideoIsAllocatedWhereForwarded ==
    \A d \in Participants :
        LET fwd == client[d].video_forwarder
        IN  DOMAIN client[d].allocated_height =
              {s \in DOMAIN fwd : ForwardingSsrc(fwd[s]) # None \/ NeedsKeyFrame(fwd[s]) # None}

\* A forwarder forwards and waits for layers of its own sender, and never waits
\* for the layer it forwards.
ForwardersAreOfTheirSender ==
    \A d \in Participants : \A s \in DOMAIN client[d].video_forwarder :
        LET f == client[d].video_forwarder[s]
        IN  /\ s # d
            /\ ForwardingSsrc(f) # None => DemuxIdOf(ForwardingSsrc(f)) = s
            /\ f.switching # None => DemuxIdOf(f.switching) = s /\ f.switching # ForwardingSsrc(f)

\* The height of a layer, which what is allocated depends on, is that of its last
\* key frame turned by the last rotation, although the rotation is one of the
\* sender and comes in other packets, of any layer.
HeightsFollowTheRotation ==
    \A d \in Participants : \A i \in LayerIndices :
        LET l == client[d].layers[i]
        IN  l.incoming_height = IF l.resolution = None THEN 0
                                ELSE HeightOf(l.resolution, client[d].rotated)

\* "This bitrate will be equal to or greater than the rate for different layers":
\* the budget for the layers being forwarded is never the smaller one.
BudgetsAreOrdered ==
    \A d \in Participants :
        LET c == client[d]
        IN  \A ideal \in 0..DefaultMaxRate :
               AllocatableRate(MinTarget(c), c.drain, ideal) <= AllocatableRate(c.target, c.drain, ideal)

\* Once a tick has seen the last change of the clients, every client has been told
\* who the active speaker is.
EveryoneKnowsTheSpeaker ==
    ~changed /\ active_speaker # None =>
        \A d \in Participants : client[d].told_speaker = active_speaker

\* What is forwarded, waited for and announced is one and the same, and what allocation goes
\* by is up to date (allocate_video_layers, forward_video_rtp, handle_rtp, tick).
ForwardingIsConsistent ==
    /\ VideoIsAllocatedWhereForwarded /\ ForwardersAreOfTheirSender
    /\ HeightsFollowTheRotation /\ BudgetsAreOrdered /\ EveryoneKnowsTheSpeaker

\* A key frame that some receiver waits for is asked for, again and again until it
\* comes or nobody waits for it any more, in spite of the throttling.
KeyFramesAreAskedFor ==
    \A x \in Ssrcs :
        (x \in NeededKeyFrames(client) /\ asked[x] # "fresh")
            ~> (asked[x] = "fresh" \/ x \notin NeededKeyFrames(client))

\* The active speaker may have left, and is named to the others nevertheless, but
\* not for ever.
DepartedSpeakersAreReplaced ==
    (active_speaker # None /\ active_speaker \notin Participants /\ clients # <<>>)
        ~> (active_speaker \in Participants \/ clients = <<>>)

\* Nobody waits for ever for a key frame to be asked for or for a speaker who is there.
WaitingEnds == KeyFramesAreAskedFor /\ DepartedSpeakersAreReplaced
==============================================================================
