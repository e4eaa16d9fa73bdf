-------------------------------- MODULE MCParts --------------------------------
(* The parts that share no state with each other, each for itself, for TLC: the    *)
(* first state chooses the part that runs, and the others stay as they begin.      *)
EXTENDS CydSpeaker, CydStatusLed, CydDisplay, CydTextInput, SystemBoot,
        StoredSettings, SettingsScreens, WifiSetupScreens, ClockScreens, TLC

CONSTANTS c1, c2, n1, n2

VARIABLE part

partVars == <<part, speakerVars, ledVars, displayVars, textVars, bootVars, storedVars, screenVars,
              setupVars, clockVars>>

(* A part that waits begins in one of its initial states. *)
Waits(p, s) == part = p \/ s
AnyStore == CHOOSE s \in [1..MaxProfiles -> Ssids] : \A i, j \in 1..MaxProfiles : s[i] = s[j] => i = j

Init ==
    /\ part \in {"speaker", "led", "display", "text", "boot", "stored", "screens", "setup", "clock"}
    /\ SpeakerInit /\ LedInit /\ DisplayInit /\ TextInit /\ SetupInit
    /\ BootInit /\ Waits("boot", ~down /\ ~calibrated)
    /\ StoredInit /\ Waits("stored", setting = SaveOrder[1] /\ flash = NoRecord)
    /\ ScreensInit /\ Waits("screens", store = AnyStore /\ hidden = {} /\ ~invalid)
    /\ ClockInit /\ Waits("clock", ~pressed /\ ~guarded)

RunSpeaker ==
    /\ part = "speaker"
    /\ SpeakerNext
    /\ UNCHANGED <<ledVars, displayVars, textVars, bootVars, storedVars, screenVars, setupVars, clockVars>>
RunLed ==
    /\ part = "led"
    /\ LedNext
    /\ UNCHANGED <<speakerVars, displayVars, textVars, bootVars, storedVars, screenVars, setupVars, clockVars>>
RunDisplay ==
    /\ part = "display"
    /\ DisplayNext
    /\ UNCHANGED <<speakerVars, ledVars, textVars, bootVars, storedVars, screenVars, setupVars, clockVars>>
RunText ==
    /\ part = "text"
    /\ TextNext
    /\ UNCHANGED <<speakerVars, ledVars, displayVars, bootVars, storedVars, screenVars, setupVars, clockVars>>
RunBoot ==
    /\ part = "boot"
    /\ BootNext
    /\ UNCHANGED <<speakerVars, ledVars, displayVars, textVars, storedVars, screenVars, setupVars, clockVars>>
RunStored ==
    /\ part = "stored"
    /\ StoredNext
    /\ UNCHANGED <<speakerVars, ledVars, displayVars, textVars, bootVars, screenVars, setupVars, clockVars>>
RunScreens ==
    /\ part = "screens"
    /\ ScreensNext
    /\ UNCHANGED <<speakerVars, ledVars, displayVars, textVars, bootVars, storedVars, setupVars, clockVars>>
RunSetup ==
    /\ part = "setup"
    /\ SetupNext
    /\ UNCHANGED <<speakerVars, ledVars, displayVars, textVars, bootVars, storedVars, screenVars, clockVars>>
RunClock ==
    /\ part = "clock"
    /\ ClockNext
    /\ UNCHANGED <<speakerVars, ledVars, displayVars, textVars, bootVars, storedVars, screenVars, setupVars>>

Next ==
    /\ UNCHANGED part
    /\ \/ RunSpeaker
       \/ RunLed
       \/ RunDisplay
       \/ RunText
       \/ RunBoot
       \/ RunStored
       \/ RunScreens
       \/ RunSetup
       \/ RunClock

Spec == Init /\ [][Next]_partVars

-----------------------------------------------------------------------------
(* The instances. *)
MCSounds == {EventSounds["click"], EventSounds["error"], <<Note(FALSE, TRUE), Note(TRUE, FALSE)>>}

MCScreens == {<<Widget(1, 1, "a")>>, <<Widget(1, 2, "b"), Widget(2, 2, "a")>>}

MCSession(max, prefix, groups, mode, upper, digits, initial) ==
    [max |-> max, prefix |-> prefix, groups |-> groups, mode |-> mode, upper |-> upper,
     digits |-> digits, initial |-> initial]
GroupedSession == MCSession(6, <<"A", "-">>, <<2, 1>>, "generic", FALSE, TRUE, <<"A", "-", "1">>)
GroupedSessions == {GroupedSession}
MCSessions ==
    {MCSession(2, <<>>, <<>>, "password", FALSE, FALSE, <<>>),
     GroupedSession,
     MCSession(3, <<"p">>, <<>>, "url", FALSE, FALSE, <<"a">>),
     MCSession(3, <<>>, <<1, 2>>, "generic", TRUE, FALSE, <<>>)}

MCFixes == {{}, {"storedSsids", "clearAppData"} \cup GeneralItems, NvsItems}

MCScanLists == {<<>>, <<n1, n2>>, <<n2, n1>>, <<n2>>}

-----------------------------------------------------------------------------
(* The values of the variables of the part that runs. *)
PartsTypeOK ==
    CASE part = "speaker" -> SpeakerTypeOK
      [] part = "led"     -> LedTypeOK
      [] part = "display" -> DisplayTypeOK
      [] part = "text"    -> TextTypeOK
      [] part = "boot"    -> BootTypeOK
      [] part = "stored"  -> StoredTypeOK
      [] part = "screens" -> ScreensTypeOK
      [] part = "setup"   -> SetupTypeOK
      [] part = "clock"   -> ClockTypeOK

(* What is heard and seen follows what was asked for last: the speaker's part and the LED's *)
(* (cyd_speaker.c:111-129, cyd_status_led.c:215-283).                                       *)
OutputsFollow == NewestIsServed /\ ToneEndsWithSound /\ LedShowsResult

(* The settings save what was set when they are left, step back what they stepped, delete   *)
(* the profile that was on the screen, and act on nothing that the product hides            *)
(* (system_settings_app.c:500-546, 792-840, 982-1061, system_settings_fix.c:36-90).         *)
SettingsKeepTheirWord == SavedOnLeaving /\ StepsAreUndone /\ DeletesTheShown /\ HiddenStaysHidden
=============================================================================
