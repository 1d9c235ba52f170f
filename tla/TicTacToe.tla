------------------------------ MODULE TicTacToe ------------------------------
(***************************************************************************)
(* The rules of cw10/.../zad1/src/game.c.  The positions and the lines of  *)
(* the board are parameters; the program's are the nine fields and the     *)
(* eight lines of tic-tac-toe.                                             *)
(***************************************************************************)
CONSTANTS Positions, Lines

ASSUME LinesAssumption == Lines \subseteq (SUBSET Positions) \ {{}}

Player == {"X", "O"}
Field == {"EMPTY"} \cup Player
Winner == {"DRAW"} \cup Player
Game == [board : [Positions -> Field], next_player : Player, winner : Winner, is_over : BOOLEAN]

\* the program leaves winner unset until the game is over and reads it only then
NewGame == [board |-> [p \in Positions |-> "EMPTY"], next_player |-> "X",
            winner |-> "DRAW", is_over |-> FALSE]

Opponent(player) == IF player = "X" THEN "O" ELSE "X"

Full(board) == \A p \in Positions : board[p] # "EMPTY"
Owners(board) == {player \in Player : \E l \in Lines : \A p \in l : board[p] = player}

\* A full board is a draw before any line is looked at.
update_game_winner(game) ==
  CASE Full(game.board) -> [game EXCEPT !.winner = "DRAW", !.is_over = TRUE]
    [] ~Full(game.board) /\ Owners(game.board) # {} ->
         [game EXCEPT !.winner = CHOOSE player \in Owners(game.board) : TRUE, !.is_over = TRUE]
    [] OTHER -> game

Legal(game, pos) == ~game.is_over /\ game.board[pos] = "EMPTY"

\* game_move: who asks for the move is not looked at, the field goes to next_player
game_move(game, pos) ==
  update_game_winner([game EXCEPT !.board[pos] = game.next_player,
                                  !.next_player = Opponent(game.next_player)])
=============================================================================
