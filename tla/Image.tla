-------------------------------- MODULE Image --------------------------------
(***************************************************************************)
(* A JPEG texture is loaded (src/16-cube): the stream of bytes, the codes  *)
(* and the bit buffer, the blocks of coefficients, the file with its       *)
(* segments, the checks of sizes, the rows and the colours.  A behaviour   *)
(* is that of one part, `part'.  A constant or a variable that two of them *)
(* name alike is declared once, and the variables that only other parts    *)
(* have stay idle.                                                         *)
(***************************************************************************)
EXTENDS Integers

CONSTANTS
    Parts,                                                               \* those of the run
    BufLen, Lengths, Counts, MaxCalls,                                   \* the stream of bytes
    MaxLen, ByteBits, FastBits, Flag, FastMax, MaxCount, MaxBytes,
    LongCounts, MaxLong,                                                 \* the codes
    SmallInt, SmallShort, Args,                                          \* the checks of sizes
    K, RunMax, Quant, Targets, Scripts,                                  \* the blocks
    Edge, Ahead, Files, OddFiles, MaxMallocs,                            \* the file
    Dims, Factors, Values, Temp,                                         \* the rows
    First, Second,                                                       \* the colours
    IntMax, ShortMax                                                     \* of several parts

VARIABLES
    part,
    source, size, s, pos, spoiled, first, calls,
    count, h, stream, at,
    call, valid,
    target, progressive, script, data, scan, b,
    file, whole, heap, left, twice, result, decoded,
    plane, img_x, img_y, hs, vs, r,
    img_n, rgb, transform, jfif, coutput, i,
    pc, j, got, meant, req_comp, out     \* of several parts

\* The variables that one part alone has.
streamOnly == <<source, size, s, pos, spoiled, first, calls>>
huffmanOnly == <<count, h, stream, at>>
sizeOnly == <<call, valid>>
blockOnly == <<target, progressive, script, data, scan, b>>
fileOnly == <<file, whole, heap, left, twice, result, decoded>>
rowsOnly == <<plane, img_x, img_y, hs, vs, r>>
colourOnly == <<img_n, rgb, transform, jfif, coutput, i>>
vars == <<part, streamOnly, huffmanOnly, sizeOnly, blockOnly, fileOnly, rowsOnly, colourOnly, pc,
          j, got, meant, req_comp, out>>

\* What is not the part's own.
notStream == <<part, huffmanOnly, sizeOnly, blockOnly, fileOnly, rowsOnly, colourOnly, j, req_comp,
               out>>
notHuffman == <<part, streamOnly, sizeOnly, blockOnly, fileOnly, rowsOnly, colourOnly, req_comp, out>>
notSize == <<part, streamOnly, huffmanOnly, blockOnly, fileOnly, rowsOnly, colourOnly, j, got,
             meant, req_comp, out>>
notBlock == <<part, streamOnly, huffmanOnly, sizeOnly, fileOnly, rowsOnly, colourOnly, got, meant,
              req_comp, out>>
notFile == <<part, streamOnly, huffmanOnly, sizeOnly, blockOnly, rowsOnly, colourOnly, got, meant,
             out>>
notRows == <<part, streamOnly, huffmanOnly, sizeOnly, blockOnly, fileOnly, colourOnly, got, meant,
             req_comp>>
notColour == <<part, streamOnly, huffmanOnly, sizeOnly, blockOnly, fileOnly, rowsOnly, pc, j, got,
               meant>>

Idle == "idle"
StreamIdle ==
    /\ source = Idle /\ size = Idle /\ s = Idle /\ pos = Idle /\ spoiled = Idle /\ first = Idle
    /\ calls = Idle
HuffmanIdle == count = Idle /\ h = Idle /\ stream = Idle /\ at = Idle
SizeIdle == call = Idle /\ valid = Idle
BlockIdle ==
    /\ target = Idle /\ progressive = Idle /\ script = Idle /\ data = Idle /\ scan = Idle
    /\ b = Idle
FileIdle ==
    /\ file = Idle /\ whole = Idle /\ heap = Idle /\ left = Idle /\ twice = Idle
    /\ result = Idle /\ decoded = Idle
RowsIdle ==
    /\ plane = Idle /\ img_x = Idle /\ img_y = Idle /\ hs = Idle /\ vs = Idle /\ r = Idle
ColourIdle ==
    /\ img_n = Idle /\ rgb = Idle /\ transform = Idle /\ jfif = Idle /\ coutput = Idle /\ i = Idle
StreamAlone ==
    /\ HuffmanIdle /\ SizeIdle /\ BlockIdle /\ FileIdle /\ RowsIdle /\ ColourIdle /\ j = Idle
    /\ req_comp = Idle /\ out = Idle
HuffmanAlone ==
    /\ StreamIdle /\ SizeIdle /\ BlockIdle /\ FileIdle /\ RowsIdle /\ ColourIdle
    /\ req_comp = Idle /\ out = Idle
SizeAlone ==
    /\ StreamIdle /\ HuffmanIdle /\ BlockIdle /\ FileIdle /\ RowsIdle /\ ColourIdle /\ j = Idle
    /\ got = Idle /\ meant = Idle /\ req_comp = Idle /\ out = Idle
BlockAlone ==
    /\ StreamIdle /\ HuffmanIdle /\ SizeIdle /\ FileIdle /\ RowsIdle /\ ColourIdle /\ got = Idle
    /\ meant = Idle /\ req_comp = Idle /\ out = Idle
FileAlone ==
    /\ StreamIdle /\ HuffmanIdle /\ SizeIdle /\ BlockIdle /\ RowsIdle /\ ColourIdle
    /\ got = Idle /\ meant = Idle /\ out = Idle
RowsAlone ==
    /\ StreamIdle /\ HuffmanIdle /\ SizeIdle /\ BlockIdle /\ FileIdle /\ ColourIdle
    /\ got = Idle /\ meant = Idle /\ req_comp = Idle
ColourAlone ==
    /\ StreamIdle /\ HuffmanIdle /\ SizeIdle /\ BlockIdle /\ FileIdle /\ RowsIdle /\ pc = Idle
    /\ j = Idle /\ got = Idle /\ meant = Idle

-----------------------------------------------------------------------------
Stream == INSTANCE ImageStream
Huffman == INSTANCE JpegHuffman
Size == INSTANCE ImageSizes WITH IntMax <- SmallInt, ShortMax <- SmallShort
Block == INSTANCE JpegBlock
File == INSTANCE JpegFile
Rows == INSTANCE JpegRows
Colour == INSTANCE JpegColour

ASSUME ImageAssumption ==
    /\ Stream!StreamAssumption /\ Huffman!HuffmanAssumption /\ Size!SizesAssumption
    /\ Block!BlockAssumption /\ File!FileAssumption /\ Rows!RowsAssumption /\ Colour!ColourAssumption

-----------------------------------------------------------------------------
Init ==
    /\ part \in Parts
    /\ \/ part = "stream" /\ Stream!Init /\ StreamAlone
       \/ part = "huffman" /\ Huffman!Init /\ HuffmanAlone
       \/ part = "sizes" /\ Size!Init /\ SizeAlone
       \/ part = "block" /\ Block!Init /\ BlockAlone
       \/ part = "file" /\ File!Init /\ FileAlone
       \/ part = "rows" /\ Rows!Init /\ RowsAlone
       \/ part = "colour" /\ Colour!Init /\ ColourAlone
Next ==
    \/ part = "stream" /\ Stream!Next /\ UNCHANGED notStream
    \/ part = "huffman" /\ Huffman!Next /\ UNCHANGED notHuffman
    \/ part = "sizes" /\ Size!Next /\ UNCHANGED notSize
    \/ part = "block" /\ Block!Next /\ UNCHANGED notBlock
    \/ part = "file" /\ File!Next /\ UNCHANGED notFile
    \/ part = "rows" /\ Rows!Next /\ UNCHANGED notRows
    \/ part = "colour" /\ Colour!Next /\ UNCHANGED notColour
Spec == Init /\ [][Next]_vars

-----------------------------------------------------------------------------
\* What the decoders read is the image, byte for byte (ImageStream).
StreamExact == part = "stream" => Stream!StreamExact

\* The symbols and values are those of the bits (JpegHuffman).
CodesDecoded == part = "huffman" => Huffman!CodesDecoded

\* What an encoder put into an image comes out of it: the coefficients
\* (JpegBlock), the samples between and beside each other (JpegRows), the
\* colours (JpegColour).
PictureRestored ==
    /\ part = "block" => Block!BlocksRestored
    /\ part = "rows" => Rows!RowsRight
    /\ part = "colour" => Colour!ColoursRight

\* The pixels of a stretched row are weighed by their distance to its samples
\* (JpegRows; stb_image.h:1926: "upsampled channels are bilinearly interpolated").
RowsCentred == part = "rows" => Rows!RowsCentred

\* Every block of a file is decoded once, in its order (JpegFile).
FileDecoded == part = "file" => File!FileDecoded

\* Sizes do not overflow (ImageSizes), blocks stay in the memory that was asked
\* for, and all of it is freed once (JpegFile).
MemoryKept ==
    /\ part = "sizes" => Size!SizesExact
    /\ part = "file" => File!MemoryKept
=============================================================================
