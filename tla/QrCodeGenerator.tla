--------------------------- MODULE QrCodeGenerator ---------------------------
(***************************************************************************)
(* whz::whz_qrcode_generator: a QR code as a png file, as an svg file and  *)
(* as a base64 encoded png.                                                *)
(*                                                                         *)
(* qrcodegen is external: the code of a text is a set of dark modules      *)
(* <<x, y>>, and a text that is too long makes it throw.  libpng is        *)
(* external: the bytes of a picture are one of a small set, and any of its *)
(* calls may fail.  Pixels and bytes are counted from 0, as in the code.   *)
(***************************************************************************)
EXTENDS Integers, Sequences, FiniteSets

CONSTANTS
    QrSize,         \* qr.getSize()
    QrScales,       \* the values of params.scale
    QrBorders,      \* the values of params.border
    PngBytes,       \* the byte sequences that a picture may become
    Black, White    \* 0 and 255

ASSUME QrSizeAssumption == QrSize \in Nat \ {0}
ASSUME QrScalesAssumption == QrScales \subseteq Nat \ {0} /\ QrBorders \subseteq Nat
ASSUME ColoursAssumption == Black # White
ASSUME PngBytesAssumption == \A b \in PngBytes : b \in Seq(0..255)

VARIABLES
    text,       \* the text and params of the calls: [state, modules, scale, border]
                \* where state is "none", "given", "png" or "base64" (the call
                \* that is running) or "terminated"
    row_y,      \* y of the loop of writePNG
    png_rows,   \* the rows that writePNG has written
    image,      \* the pixels of encodeBase64Png
    svg,        \* the unit squares of the svg path, in its coordinates
    pngData,    \* what base64Encode was given
    pos,        \* i of its loop
    ret         \* the digits it has made: 0..63, or Padding

qr_vars == <<text, row_y, png_rows, image, svg, pngData, pos, ret>>

Padding == 64   \* '='

QrInit ==
    /\ text = [state |-> "none", modules |-> {}, scale |-> 1, border |-> 0]
    /\ row_y = 0 /\ pos = 0
    /\ png_rows = <<>> /\ image = <<>> /\ svg = {}
    /\ pngData = <<>> /\ ret = <<>>

\* The text and the parameters of the calls.  The class has no members, so
\* nothing of one text is there for the next: a behaviour has one text.
NewText ==
    /\ text.state = "none"
    /\ \E modules \in SUBSET ((0..QrSize - 1) \X (0..QrSize - 1)),
          scale \in QrScales, border \in QrBorders :
        text' = [state |-> "given", modules |-> modules, scale |-> scale,
                 border |-> border]
    /\ UNCHANGED <<row_y, png_rows, image, svg, pngData, pos, ret>>

\* encodeText throws out of a noexcept function: std::terminate.
TextTooLong ==
    /\ text.state = "given"
    /\ text' = [text EXCEPT !.state = "terminated"]
    /\ UNCHANGED <<row_y, png_rows, image, svg, pngData, pos, ret>>

imageSize == QrSize * text.scale + 2 * text.border

\* writePNG(): the file and the libpng structures are there.
WritePng ==
    /\ text.state = "given"
    /\ text' = [text EXCEPT !.state = "png"]
    /\ row_y' = -text.border
    /\ png_rows' = <<>>
    /\ UNCHANGED <<image, svg, pngData, pos, ret>>

\* The row of a y, whose column 0 is x = -border.
row(y) ==
    [c \in 0..imageSize - 1 |->
        LET x == c - text.border
        IN  IF /\ y >= 0 /\ y \div text.scale < QrSize
               /\ x >= 0 /\ x \div text.scale < QrSize
               /\ <<x \div text.scale, y \div text.scale>> \in text.modules
            THEN Black ELSE White]

\* A turn of the loop over y, and the end of the file after the last one.
WriteRow ==
    /\ text.state = "png"
    /\ row_y < QrSize * text.scale + text.border
    /\ png_rows' = Append(png_rows, row(row_y))
    /\ row_y' = row_y + 1
    /\ UNCHANGED <<text, image, svg, pngData, pos, ret>>

WriteEnd ==
    /\ text.state = "png"
    /\ row_y >= QrSize * text.scale + text.border
    /\ text' = [text EXCEPT !.state = "given"]
    /\ UNCHANGED <<row_y, png_rows, image, svg, pngData, pos, ret>>

\* libpng jumps to setjmp: the call returns false.
WriteFails ==
    /\ text.state = "png"
    /\ text' = [text EXCEPT !.state = "given"]
    /\ png_rows' = <<>>
    /\ UNCHANGED <<row_y, image, svg, pngData, pos, ret>>

\* writeSVG().  The border counts modules here, and pixels in writePNG().
WriteSvg ==
    /\ text.state = "given"
    /\ svg' = {<<m[1] + text.border, m[2] + text.border>> : m \in text.modules}
    /\ UNCHANGED <<text, row_y, png_rows, image, pngData, pos, ret>>

\* Mutant: the pixels of a module are taken from its row and column swapped.
black_indices_swapped ==
    {(m[1] * text.scale + dy + text.border) * imageSize
        + (m[2] * text.scale + dx + text.border) :
        m \in text.modules, dy \in 0..text.scale - 1, dx \in 0..text.scale - 1}

\* The indices of image that encodeBase64Png() makes black.
black_indices ==
    {(m[2] * text.scale + dy + text.border) * imageSize
        + (m[1] * text.scale + dx + text.border) :
        m \in text.modules, dy \in 0..text.scale - 1, dx \in 0..text.scale - 1}

\* generateBase64Bitmap(): the picture is drawn, written by libpng to a
\* temporary file, and what the file holds goes to base64Encode().
EncodeBase64Png ==
    /\ text.state = "given"
    /\ text' = [text EXCEPT !.state = "base64"]
    /\ image' = [i \in 0..imageSize * imageSize - 1 |->
                    IF i \in black_indices THEN Black ELSE White]
    /\ pngData' \in PngBytes
    /\ pos' = 0
    /\ ret' = <<>>
    /\ UNCHANGED <<row_y, png_rows, svg>>

\* tmpfile() or libpng fails: the empty string.
EncodeFails ==
    /\ text.state = "given"
    /\ image' = <<>> /\ pngData' = <<>> /\ ret' = <<>>
    /\ UNCHANGED <<text, row_y, png_rows, svg, pos>>

byte(i) == IF i < Len(pngData) THEN pngData[i + 1] ELSE 0

\* The 24 bits of up to three bytes, and four digits of 6 bits of them.
value(i) == byte(i) * 65536 + byte(i + 1) * 256 + byte(i + 2)

sextets(v) == <<(v \div 262144) % 64, (v \div 4096) % 64, (v \div 64) % 64, v % 64>>

\* Mutant: the last digit is there when the second byte is.
digits_late(i) ==
    LET s == sextets(value(i))
    IN  <<s[1], s[2],
          IF i + 1 < Len(pngData) THEN s[3] ELSE Padding,
          IF i + 1 < Len(pngData) THEN s[4] ELSE Padding>>

\* The four digits of up to three bytes.
digits(i) ==
    LET s == sextets(value(i))
    IN  <<s[1], s[2],
          IF i + 1 < Len(pngData) THEN s[3] ELSE Padding,
          IF i + 2 < Len(pngData) THEN s[4] ELSE Padding>>

\* A turn of the loop of base64Encode(), and its return.
EncodeTriple ==
    /\ text.state = "base64"
    /\ pos < Len(pngData)
    /\ ret' = ret \o digits(pos)
    /\ pos' = pos + 3
    /\ UNCHANGED <<text, row_y, png_rows, image, svg, pngData>>

EncodeEnd ==
    /\ text.state = "base64"
    /\ pos >= Len(pngData)
    /\ text' = [text EXCEPT !.state = "given"]
    /\ UNCHANGED <<row_y, png_rows, image, svg, pngData, pos, ret>>

QrNext ==
    \/ NewText \/ TextTooLong
    \/ WritePng \/ WriteRow \/ WriteEnd \/ WriteFails
    \/ WriteSvg
    \/ EncodeBase64Png \/ EncodeFails \/ EncodeTriple \/ EncodeEnd

QrSpec == QrInit /\ [][QrNext]_qr_vars

----------------------------------------------------------------------------
\* The two pngs of a text are one picture: writePNG(), which asks of every
\* pixel which module it belongs to, has written a prefix of the rows of the
\* image that encodeBase64Png() paints module by module, and all of them when
\* it is done; no pixel is painted outside of the image.  At scale 1 the svg
\* shows the same squares.
RowsAgree ==
    image # <<>> =>
        /\ black_indices \subseteq DOMAIN image
        /\ Len(png_rows) <= imageSize
        /\ (png_rows # <<>> /\ text.state # "png") => Len(png_rows) = imageSize
        /\ \A y \in 1..Len(png_rows), x \in 0..imageSize - 1 :
              png_rows[y][x] = image[(y - 1) * imageSize + x]
        /\ (text.scale = 1 /\ svg # {}) =>
              \A x, y \in 0..imageSize - 1 :
                  <<x, y>> \in svg <=> image[y * imageSize + x] = Black

\* How base64 is read: four digits are 24 bits, padding standing for 0, and
\* byte k is the k % 3-rd eight of them.
bits(d) ==
    LET six(j) == IF d[j] = Padding THEN 0 ELSE d[j]
    IN  six(1) * 262144 + six(2) * 4096 + six(3) * 64 + six(4)

decoded(k) ==
    LET v == bits([j \in 1..4 |-> ret[4 * (k \div 3) + j]])
    IN  CASE k % 3 = 0 -> v \div 65536
          [] k % 3 = 1 -> (v \div 256) % 256
          [] OTHER -> v % 256

\* What base64Encode() returns decodes to the bytes it was given, whatever
\* their number: the digits come in fours, the padding is at the end and
\* tells how many bytes the last four hold.
Base64Decodes ==
    (pngData # <<>> /\ text.state # "base64") =>
        LET padding == {i \in 1..Len(ret) : ret[i] = Padding}
        IN  /\ Len(ret) % 4 = 0
            /\ \A i \in padding : i + 2 > Len(ret)
            /\ (Len(ret) - 1 \in padding) => Len(ret) \in padding
            /\ Len(pngData) = 3 * (Len(ret) \div 4) - Cardinality(padding)
            /\ \A k \in 0..Len(pngData) - 1 : decoded(k) = pngData[k + 1]
=============================================================================
