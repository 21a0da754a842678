------------------------------ MODULE Material ------------------------------
(***************************************************************************)
(* The window's material (refresh_backdrop in app/keys/settings_actions.rs,*)
(* the end of ui in app/mod.rs, platform/dwm.rs): the desktop compositor   *)
(* is changed at once, what the window draws a frame later, so a material  *)
(* is switched on before the panel turns to glass, and off after frames    *)
(* with a solid panel.                                                     *)
(***************************************************************************)
EXTENDS Naturals

CONSTANTS
    Countdown,      \* frames after which the material is cleared
    Changes         \* bound: changes of the user and of the system

VARIABLES
    backdrop,       \* settings.backdrop
    image,          \* settings.background_image_path is set
    theme, system,  \* settings.theme, and the theme of the system
    supported,      \* the system has materials
    dwm,            \* the material the compositor shows
    border,         \* the theme the outline was coloured for, or "off"
    active,         \* window.backdrop_active
    countdown,      \* window.backdrop_clear_countdown
    panel,          \* the style registered for the panel: "solid" or "glass"
    presented,      \* the panel of the last frame
    changes

materialVars == <<backdrop, image, theme, system, supported, dwm, border, active, countdown,
                  panel, presented, changes>>

Kind == {"none", "mica", "acrylic"}
Theme == {"light", "dark"}

TypeOK ==
    /\ backdrop \in Kind /\ dwm \in Kind
    /\ image \in BOOLEAN /\ supported \in BOOLEAN /\ active \in BOOLEAN
    /\ theme \in Theme \cup {"system"} /\ system \in Theme
    /\ border \in Theme \cup {"off"}
    /\ countdown \in 0 .. Countdown
    /\ panel \in {"solid", "glass"} /\ presented \in {"solid", "glass"}
    /\ panel = "glass" <=> active

Init ==
    /\ backdrop \in Kind /\ image \in BOOLEAN /\ theme \in Theme \cup {"system"}
    /\ system \in Theme /\ supported \in BOOLEAN
    /\ dwm = "none" /\ border = "off" /\ active = FALSE /\ countdown = 0
    /\ panel = "solid" /\ presented = "solid" /\ changes = 0

-----------------------------------------------------------------------------
\* ctx.theme: the preference, or the system's theme
InForce(preference) == IF preference = "system" THEN system ELSE preference

\* A background image takes the place of the material.
Effective(b, i) == IF i THEN "none" ELSE b

\* refresh_backdrop with the settings as they are by then: what the compositor
\* shows, whether the panel is glass, the outline, and the countdown.
RefreshBackdrop(b, i) ==
    LET wanted == Effective(b, i) IN
    IF wanted = "none"
    THEN [dwm |-> dwm, active |-> FALSE,
          border |-> IF active THEN "off" ELSE border,
          countdown |-> IF active THEN Countdown ELSE countdown]
    ELSE [dwm |-> IF supported THEN wanted ELSE dwm, active |-> supported,
          border |-> CASE supported -> InForce(theme)
                       [] ~supported /\ active -> "off"
                       [] OTHER -> border,
          countdown |-> countdown]

\* The end of ui: at zero the material is taken from the compositor.
EndOfFrame(after) ==
    LET left == IF after.countdown > 0 THEN after.countdown - 1 ELSE 0 IN
    /\ countdown' = left
    /\ dwm' = IF after.countdown = 1 THEN "none" ELSE after.dwm
    /\ active' = after.active /\ border' = after.border
    /\ panel' = IF after.active THEN "glass" ELSE "solid"
    /\ presented' = panel       \* drawn before the handler has run

Unchanged == [dwm |-> dwm, active |-> active, border |-> border, countdown |-> countdown]

Frame ==
    /\ EndOfFrame(Unchanged)
    /\ UNCHANGED <<backdrop, image, theme, system, supported, changes>>

\* A frame in which the user changes a preference.
Changing == changes < Changes /\ changes' = changes + 1 /\ UNCHANGED <<system, supported>>

ApplyBackdrop(b) ==
    /\ Changing /\ b # backdrop
    /\ backdrop' = b
    /\ EndOfFrame(RefreshBackdrop(b, image))
    /\ UNCHANGED <<image, theme>>

ApplyBackgroundPath ==
    /\ Changing
    /\ image' = ~image
    /\ EndOfFrame(RefreshBackdrop(backdrop, ~image))
    /\ UNCHANGED <<backdrop, theme>>

ApplyThemePref(preference) ==
    /\ Changing /\ preference # theme
    /\ theme' = preference
    /\ EndOfFrame([Unchanged EXCEPT !.border = IF active THEN InForce(preference) ELSE border])
    /\ UNCHANGED <<backdrop, image>>

\* Each preference of the appearance has its own handler; the last of them to
\* refresh the material sees the others.
ApplyResetAppearance ==
    /\ Changing
    /\ backdrop' = "mica" /\ image' = FALSE /\ theme' = "system"
    /\ EndOfFrame([RefreshBackdrop("mica", FALSE) EXCEPT
                     !.border = IF supported THEN system ELSE @])
    /\ backdrop # "mica" \/ image

\* The window is known after its first frame; the system changes its theme.
FirstFrame ==
    /\ changes = 0 /\ changes' = 1
    /\ EndOfFrame(RefreshBackdrop(backdrop, image))
    /\ UNCHANGED <<backdrop, image, theme, system, supported>>

SystemTheme ==
    /\ changes \in 1 .. Changes - 1 /\ changes' = changes + 1
    /\ system' = CHOOSE t \in Theme : t # system
    /\ UNCHANGED <<backdrop, image, theme, supported, dwm, border, active, countdown, panel,
                   presented>>

Next ==
    \/ FirstFrame
    \/ /\ changes > 0
       /\ \/ Frame
          \/ \E b \in Kind : ApplyBackdrop(b)
          \/ ApplyBackgroundPath
          \/ \E t \in Theme \cup {"system"} : ApplyThemePref(t)
          \/ ApplyResetAppearance
    \/ SystemTheme

Spec == Init /\ [][Next]_materialVars

-----------------------------------------------------------------------------
\* The material does not outlive the glass: once the frames have passed that
\* hide it, the compositor shows none behind a solid panel.
MaterialGoesAway == ~active /\ countdown = 0 => dwm = "none"

\* "Whether the material is in effect now" (backdrop_active in app/mod.rs, which
\* makes the clear colour transparent): where it says so, the compositor shows
\* the material that is set.
MaterialIsShown == active => dwm = backdrop

\* "The tint and the outline follow the theme" (refresh_backdrop).
OutlineFollowsTheme == active => border = InForce(theme)
=============================================================================
