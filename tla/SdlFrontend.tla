---------------------------- MODULE SdlFrontend ----------------------------
(***************************************************************************)
(* The window (app/src/sdl_frontend.cpp). One texture shows the terminal   *)
(* or the framebuffer; F1 and F2 switch. The main loop appends the guest's *)
(* output, polls the window's events and calls present, which redraws at   *)
(* most once per refresh interval unless a redraw is forced.               *)
(*                                                                         *)
(* Of a selection only its control is kept: while the user drags, it is    *)
(* active when its two ends differ.                                        *)
(***************************************************************************)
EXTENDS TerminalConsole, Framebuffer

CONSTANT RefreshInterval     \* display_refresh_interval_ms (16)

ASSUME SdlAssumption == RefreshInterval \in Nat \ {0}

VARIABLES
  window,          \* ready, active, and whether the framebuffer fits the texture
  view,
  force_redraw,
  since_present,   \* time since the last redraw, or Never
  selection,       \* dragging, active
  terminal_shown   \* history: the texture shows the terminal as it is

sdl == <<window, view, force_redraw, since_present, selection, terminal_shown>>
display == <<terminal, framebuffer, sdl>>

Never == RefreshInterval      \* the first redraw waits for nothing

NoSelection == [dragging |-> FALSE, active |-> FALSE]

DisplayInit ==
  /\ TerminalInit /\ FramebufferInit
  /\ window \in [ready : {TRUE}, active : {TRUE}, direct : BOOLEAN]
  /\ view = "terminal" /\ force_redraw = TRUE /\ since_present = Never
  /\ selection = NoSelection /\ terminal_shown = FALSE

\* The guest draws.
DrawPixels(offset, count) ==
  /\ WritePixels(offset, count)
  /\ UNCHANGED <<terminal, sdl>>

\* append_uart: output ends a selection.
append_uart ==
  /\ Output
  /\ selection' = NoSelection
  /\ force_redraw' = (force_redraw \/ selection # NoSelection)
  /\ terminal_shown' =
       (terminal_shown /\ selection = NoSelection /\ cells' = cells /\ cursor' = cursor)
  /\ UNCHANGED <<framebuffer, window, view, since_present>>

-----------------------------------------------------------------------------
(* poll_input: the events that change the window. *)

Event == window.ready /\ window.active

CloseWindow ==
  /\ Event
  /\ window' = [window EXCEPT !.active = FALSE]
  /\ UNCHANGED <<terminal, framebuffer, view, force_redraw, since_present, selection,
                 terminal_shown>>

ExposeWindow ==
  /\ Event
  /\ force_redraw' = TRUE
  /\ UNCHANGED <<terminal, framebuffer, window, view, since_present, selection,
                 terminal_shown>>

\* Mutant: the other view waits for its own content to change.
set_viewLazy(chosen) ==
  /\ Event /\ view # chosen
  /\ view' = chosen
  /\ UNCHANGED <<terminal, framebuffer, window, force_redraw, since_present, selection,
                 terminal_shown>>

set_view(chosen) ==
  /\ Event /\ view # chosen
  /\ view' = chosen /\ force_redraw' = TRUE
  /\ UNCHANGED <<terminal, framebuffer, window, since_present, selection, terminal_shown>>

\* A click outside the cells clears the selection.
begin_selection(inside) ==
  /\ Event /\ view = "terminal"
  /\ selection' = [dragging |-> inside, active |-> FALSE]
  /\ force_redraw' = TRUE
  /\ terminal_shown' = (terminal_shown /\ ~selection.active)
  /\ UNCHANGED <<terminal, framebuffer, window, view, since_present>>

\* The mouse is outside, or still in the cell of the selection's end (~moved), or
\* the end is a new cell: the start of the selection only if it was elsewhere.
update_selection(moved, apart, dragging) ==
  /\ moved /\ ~selection.active => apart
  /\ ~moved => apart = selection.active
  /\ selection' = [dragging |-> dragging, active |-> apart]
  /\ force_redraw' = (force_redraw \/ moved \/ (~dragging /\ ~apart))
  /\ terminal_shown' = (terminal_shown /\ ~moved)
  /\ UNCHANGED <<terminal, framebuffer, window, view, since_present>>

DragSelection ==
  /\ Event /\ selection.dragging /\ view = "terminal"
  /\ \E moved, apart \in BOOLEAN : update_selection(moved, apart, TRUE)

finish_selection ==
  /\ Event /\ selection.dragging
  /\ \E moved, apart \in BOOLEAN : update_selection(moved, apart, FALSE)

-----------------------------------------------------------------------------
(* present. *)

content_dirty ==
  IF view = "terminal" THEN terminal_dirty ELSE Covered(dirty_region) # {}

Due == force_redraw \/ (content_dirty /\ since_present >= RefreshInterval)

\* The rectangle that is uploaded: all of the texture, or only what changed.
Uploaded ==
  IF window.direct /\ ~force_redraw THEN Covered(dirty_region) ELSE Pixels

Clean ==
  IF view = "terminal" THEN clear_terminal_dirty /\ UNCHANGED dirty_region
                       ELSE clear_dirty /\ UNCHANGED terminal

\* Until it is due the redraw is only counted as deferred.
present ==
  /\ Event /\ Due
  /\ Clean
  /\ terminal_shown' = (view = "terminal")
  /\ stale' = IF view = "terminal" THEN Pixels ELSE stale \ Uploaded
  /\ force_redraw' = FALSE /\ since_present' = 0
  /\ UNCHANGED <<window, view, selection>>

\* SDL fails: the window is given up.
PresentFails ==
  /\ Event /\ Due
  /\ window' = [window EXCEPT !.ready = FALSE, !.active = FALSE]
  /\ UNCHANGED <<terminal, framebuffer, view, force_redraw, since_present, selection,
                 terminal_shown>>

TimePasses ==
  /\ since_present < RefreshInterval
  /\ since_present' = since_present + 1
  /\ UNCHANGED <<terminal, framebuffer, window, view, force_redraw, selection,
                 terminal_shown>>

WindowEvents ==
  \/ CloseWindow \/ ExposeWindow \/ DragSelection \/ finish_selection
  \/ \E chosen \in {"terminal", "framebuffer"} : set_view(chosen)
  \/ \E inside \in BOOLEAN : begin_selection(inside)

Draw ==
  \E count \in AccessBytes, offset \in 0 .. Width * Height * BytesPerPixel - 1 :
    DrawPixels(offset, count)

WindowNext == WindowEvents \/ present \/ PresentFails \/ TimePasses

-----------------------------------------------------------------------------
(* Properties. *)

\* What the window does not show as it is will be redrawn: a redraw is forced, or
\* the view's own dirty mark covers every difference; and the cursor and the
\* dirty rectangle lie on the screen.
ScreenHonest ==
  /\ cursor.column \in 0 .. Columns - 1 /\ cursor.row \in 0 .. Rows - 1
  /\ dirty_region.x + dirty_region.width <= Width
  /\ dirty_region.y + dirty_region.height <= Height
  /\ (window.active /\ ~force_redraw)
       => IF view = "terminal" THEN terminal_shown \/ terminal_dirty
                               ELSE stale \subseteq Covered(dirty_region)

\* The open window shows something else than the view's content.
Outdated == window.active /\ IF view = "terminal" THEN ~terminal_shown ELSE stale # {}
=============================================================================
