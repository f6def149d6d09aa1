----------------------------- MODULE Homography -----------------------------
(***************************************************************************)
(* The projective map of phase4/src/keystone.ts: the 3 x 3 matrix that     *)
(* takes the corners of the window to four points, and the CSS matrix3d    *)
(* made of it.                                                             *)
(*                                                                         *)
(* Coordinates are integers.  The code divides all entries by the last     *)
(* one; here a matrix keeps that common denominator, and a point with      *)
(* denominator W is the same point for every multiple of its coordinates.  *)
(***************************************************************************)
EXTENDS Integers, Sequences

Next3(i) == (i % 3) + 1
Vector(Op(_)) == <<Op(1), Op(2), Op(3)>>
Matrix(Op(_, _)) == Vector(LAMBDA r : Vector(LAMBDA c : Op(r, c)))
Dot(Op(_)) == Op(1) + Op(2) + Op(3)

\* The adjugate, its minors taken in cyclic order.
adj(m) ==
    LET Minor(r1, r2, c1, c2) == m[c1][r1] * m[c2][r2] - m[c1][r2] * m[c2][r1]
    IN  Matrix(LAMBDA r, c : Minor(Next3(r), Next3(Next3(r)), Next3(c), Next3(Next3(c))))

mul(a, b) == Matrix(LAMBDA i, j : Dot(LAMBDA k : a[i][k] * b[k][j]))
mulv(m, v) == Vector(LAMBDA i : Dot(LAMBDA k : m[i][k] * v[k]))

\* The map of the projective basis onto the points p: the columns are the
\* first three, scaled so that their sum is the fourth.
basis(p) ==
    LET m == <<<<p[1][1], p[2][1], p[3][1]>>, <<p[1][2], p[2][2], p[3][2]>>, <<1, 1, 1>>>>
        v == mulv(adj(m), <<p[4][1], p[4][2], 1>>)
    IN  Matrix(LAMBDA r, c : m[r][c] * v[c])

identityCorners(win) == <<<<0, 0>>, <<win[1], 0>>, <<0, win[2]>>, win>>

\* Mutation of CssOrder: the matrix is written row by row.
CssOrderRows(t) ==
    <<t[1][1], t[1][2], 0, t[1][3], t[2][1], t[2][2], 0, t[2][3], 0, 0, t[3][3], 0,
      t[3][1], t[3][2], 0, t[3][3]>>

\* CSS writes a 4 x 4 matrix column by column; z stays as it is.
CssOrder(t) ==
    <<t[1][1], t[2][1], 0, t[3][1], t[1][2], t[2][2], 0, t[3][2], 0, 0, t[3][3], 0,
      t[1][3], t[2][3], 0, t[3][3]>>

matrix3d(win, corners) == CssOrder(mul(basis(corners), adj(basis(identityCorners(win)))))

(*************************** what the browser does ************************)

\* A CSS matrix applied to the point q of the page, z = 0.
Applied(css, q) ==
    LET Sum(row) == css[row] * q[1] + css[4 + row] * q[2] + css[12 + row]
    IN  [x |-> Sum(1), y |-> Sum(2), w |-> Sum(4)]

\* The matrix takes q to the point p; its common denominator is not zero.
Takes(css, q, p) ==
    LET image == Applied(css, q)
    IN  /\ css[16] # 0 /\ image.w # 0
        /\ image.x = p[1] * image.w /\ image.y = p[2] * image.w

Collinear(a, b, c) == (b[1] - a[1]) * (c[2] - a[2]) = (b[2] - a[2]) * (c[1] - a[1])

\* Four points no three of which are on a line, as the map needs them.
General(p) == \A i, j, k \in 1..4 : i < j /\ j < k => ~Collinear(p[i], p[j], p[k])
=============================================================================
