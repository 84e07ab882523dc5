------------------------------ MODULE AppLock ------------------------------
(***************************************************************************)
(* The lock of the whole app (AppLock.tsx, AppLockSettings.tsx,            *)
(* lib/app-lock.ts and the lock part of lib/storage.ts): screens are full  *)
(* page loads, whose hide events look like the app going to the            *)
(* background, so a marker in sessionStorage tells the two apart.          *)
(* PINs, passkeys and their hashes are reduced to whether the proof the    *)
(* user gives is accepted.                                                 *)
(***************************************************************************)
EXTENDS Integers

CONSTANTS
    MaxAge,     \* NAV_INTENT_MAX_AGE_MS
    MaxTime,    \* bound on the clock
    None

AgeAssumption == {MaxAge, MaxTime} \subseteq Nat /\ None \notin Nat \cup {"unlock", "save"}

VARIABLES
    now,
    enabled, pin, passkey,  \* the configuration in localStorage
    session,    \* app_unlocked of sessionStorage
    intent,     \* app_nav_intent: when the marker was set, or None
    page,       \* "none" when the process is gone, else "open" or "locked"
    visible,    \* visibilityState
    leaving,    \* the page waits for the answer to a navigation
    op,         \* asynchronous work under way: None, "unlock" or "save"
    marked,     \* this page has set the marker
    away,       \* the app went to the background and nobody proved himself since
    rearmed     \* the lock was switched on in this process without a proof

config == <<enabled, pin, passkey>>
vars == <<now, config, session, intent, page, visible, leaving, op, marked, away, rearmed>>

Armed == enabled /\ pin
Fresh == intent # None /\ now - intent <= MaxAge

Init ==
    /\ now = 0
    /\ enabled = TRUE /\ pin = FALSE /\ passkey = FALSE
    /\ session = FALSE /\ intent = None
    /\ page = "none" /\ visible = FALSE /\ leaving = FALSE
    /\ op = None /\ marked = FALSE /\ away = FALSE /\ rearmed = FALSE

-----------------------------------------------------------------------------
(* The mount of a page: it starts locked if the lock is armed and this     *)
(* session was not unlocked, and consumes the marker that led to it. *)
Mount(wasUnlocked) ==
    /\ page' = IF Armed /\ ~wasUnlocked THEN "locked" ELSE "open"
    /\ intent' = None
    /\ marked' = FALSE /\ leaving' = FALSE /\ op' = None

Launch ==
    /\ page = "none" /\ visible' = TRUE
    /\ Mount(FALSE)
    /\ UNCHANGED <<now, config, session, away, rearmed>>

(* The process is killed: sessionStorage is gone, localStorage is not. *)
Kill ==
    /\ page # "none" /\ page' = "none" /\ visible' = FALSE
    /\ session' = FALSE /\ intent' = None /\ leaving' = FALSE /\ op' = None
    /\ marked' = FALSE /\ away' = FALSE /\ rearmed' = FALSE
    /\ UNCHANGED <<now, config>>

(* shouldLockForPageLifecycle *)
MustLock == Armed /\ page # "locked" /\ ~Fresh
LockKeeping == session' = session
Lock == session' = FALSE

(* A PIN that was being saved when the app locked marks the session as     *)
(* unlocked behind the lock screen, and later hides do not take it back. *)
Overtaken == page = "locked" /\ session

(* To the background.  Work that is under way goes on. *)
Hide ==
    /\ page # "none" /\ visible /\ visible' = FALSE
    /\ IF MustLock THEN page' = "locked" /\ Lock ELSE UNCHANGED <<page, session>>
    /\ away' = (away \/ (Armed /\ op = None /\ ~(Fresh /\ marked) /\ ~Overtaken))
    /\ UNCHANGED <<now, config, intent, leaving, op, marked, rearmed>>

Return ==
    /\ page # "none" /\ ~visible /\ visible' = TRUE
    /\ UNCHANGED <<now, config, session, intent, page, leaving, op, marked, away, rearmed>>

(* The page goes, for the screen it was told to open or reloaded by hand   *)
(* or by the system; the unload fires the hide events first. *)
Unload ==
    /\ page # "none" /\ now' = now
    /\ LET locks == visible /\ MustLock IN
       /\ IF locks THEN Lock ELSE UNCHANGED session
       /\ Mount(session')
    /\ UNCHANGED <<config, visible, away, rearmed>>

(* A click on a link sets the marker, also one whose default is prevented, *)
(* after which nothing is loaded; navigateTo and the other links do load.  *)
Click(loads) ==
    /\ page = "open" /\ visible /\ ~leaving
    /\ intent' = now /\ marked' = TRUE /\ leaving' = loads
    /\ UNCHANGED <<now, config, session, page, visible, op, away, rearmed>>

-----------------------------------------------------------------------------
(* The lock screen: PIN or passkey, both verified asynchronously. *)
TryUnlock ==
    /\ page = "locked" /\ visible /\ op = None /\ op' = "unlock"
    /\ UNCHANGED <<now, config, session, intent, page, visible, leaving, marked, away,
                   rearmed>>

Unlock(ok) ==
    /\ op = "unlock" /\ op' = None
    /\ IF ok THEN page' = "open" /\ session' = TRUE /\ away' = FALSE
       ELSE UNCHANGED <<page, session, away>>
    /\ UNCHANGED <<now, config, intent, visible, leaving, marked, rearmed>>

(* The settings: the switch, which the hashing of a PIN under way does not *)
(* hold up, and the PIN, saved with a passkey where one can be enrolled. *)
Toggle ==
    /\ page = "open" /\ visible /\ ~leaving
    /\ enabled' = ~enabled
    /\ rearmed' = (rearmed \/ (~enabled /\ pin))
    /\ UNCHANGED <<now, pin, passkey, session, intent, page, visible, leaving, op, marked,
                   away>>

BeginSave ==
    /\ page = "open" /\ visible /\ ~leaving /\ op = None /\ op' = "save"
    /\ UNCHANGED <<now, config, session, intent, page, visible, leaving, marked, away,
                   rearmed>>

Save(enrolled) ==
    /\ op = "save" /\ op' = None
    /\ enabled' = TRUE /\ pin' = TRUE /\ passkey' = (passkey \/ enrolled)
    /\ session' = TRUE
    /\ UNCHANGED <<now, intent, page, visible, leaving, marked, away, rearmed>>

ChangePasskey ==
    /\ page = "open" /\ visible /\ ~leaving /\ op = None
    /\ passkey' = ~passkey
    /\ UNCHANGED <<now, enabled, pin, session, intent, page, visible, leaving, op, marked,
                   away, rearmed>>

Tick ==
    /\ now < MaxTime /\ now' = now + 1
    /\ UNCHANGED <<config, session, intent, page, visible, leaving, op, marked, away,
                   rearmed>>

Next ==
    \/ Launch \/ Kill \/ Hide \/ Return \/ Unload \/ TryUnlock \/ Toggle \/ BeginSave
    \/ ChangePasskey \/ Tick
    \/ \E b \in BOOLEAN : Click(b) \/ Unlock(b) \/ Save(b)

Spec == Init /\ [][Next]_vars

-----------------------------------------------------------------------------
TypeOK ==
    /\ now \in 0..MaxTime /\ intent \in 0..MaxTime \cup {None}
    /\ page \in {"none", "open", "locked"} /\ op \in {None, "unlock", "save"}
    /\ {enabled, pin, passkey, session, visible, leaving, marked, away, rearmed}
         \subseteq BOOLEAN

(* Once the app went to the background it is locked, on its screen and for *)
(* the pages it loads next, until somebody unlocks it: reloads, expired    *)
(* markers and markers of earlier pages do not open it.  Left out are a    *)
(* fresh marker of the very page that is hidden, and an unlock or a new    *)
(* PIN that was under way and completes in the background, or did so       *)
(* behind the lock screen. *)
AwayIsLocked == away /\ page # "none" => page = "locked" /\ ~session

(* An open page of an armed app may load the next one without a lock: the  *)
(* session is marked as unlocked, unless the lock was switched on again    *)
(* with the PIN of an earlier time. *)
OpenIsRemembered == page = "open" /\ Armed /\ visible => session \/ rearmed

(* app-lock.ts: "A navigation must never re-lock the app." *)
NavigationStaysOpen ==
    [][leaving /\ page = "open" /\ Unload => page' = "open"]_vars
=============================================================================
